---- MODULE Spec2Model ----
(***************************************************************************)
(* BLE GATT end-to-end session of testing/mobly: the test method           *)
(* BleBasicTest.test_ble_gatt_read_write (ble_gatt_test.py) calling the    *)
(* phase functions of ble_utils.py on an initiator (scanner / GATT client) *)
(* and a receiver (advertiser / GATT server).                              *)
(*                                                                         *)
(* The harness is one sequential process (pc).  Each device answers a      *)
(* command by putting events in flight towards the callback handle the     *)
(* command returned (chan); events are delivered one by one, in order per  *)
(* handle, into the handle's queue (queue), asynchronously to the harness. *)
(* trace is the log of what the harness did: commands issued, events it    *)
(* took from a queue, phases passed, the exception raised.                 *)
(***************************************************************************)
EXTENDS Integers, Sequences, FiniteSets, TLC

VARIABLES
  pc,             \* position of the test method
  attempt_num,    \* Discover: loop variable of the retry loop
  tick,           \* Discover: iterations done of the polling loop
  success,        \* Discover: truth value of the local variable success
  idx,            \* which read / write characteristic is being exercised
  held,           \* Connect: start_client_result between waitAndGet and getAll
  queue,          \* per callback handle: events delivered and not yet taken
  chan,           \* per callback handle: events emitted and not yet delivered
  trace,          \* log of commands, taken events, passed phases, exception
  err,            \* the exception that ended the session, if any
  connEmitted,    \* onConnectionStateChange events the initiator's stack emitted for bleConnectGatt
  connDelivered,  \* of these, how many reached the client queue before the evaluation
  connSeenAtEval, \* connDelivered at the time of the getAll of Connect
  arrivals,       \* write events in the order they reached their queues
  scanArrivedAt,  \* Discover: seconds after the retry loop at which the first
                  \* required scan result reached the scan queue (-1: not yet)
  logq,           \* scripts/utils.py log_to_queue: the items of its queue q, oldest first
  maxsize,        \* log_to_queue: the capacity the queue was made with
  lines,          \* log_to_queue: the lines it was called with so far
  scan_duration,  \* StartScanning: its argument, seconds slept before each drain
  result,         \* StartScanning: the list it returns
  host,           \* scripts: platform.system() and platform.machine()
  args,           \* scripts: the parsed command line
  fs,             \* scripts: the paths that exist
  spos,           \* scripts: position of the script function being run
  attempt,        \* scripts: loop variable of _run_with_n_attempts
  effects,        \* scripts: log of external commands run and file operations done
  retval,         \* scripts: value returned by the function ("none" before)
  exc,            \* scripts: the exception that left the function ("none" if none)
  tasks,          \* scripts: the Task objects by name: enabled flag, runs of do_run
  proc,           \* utils.run: the child process: its state, return code, lines written
  pipes,          \* utils.run: the lines in the child's stdout and stderr pipes
  readers         \* utils.run: the state of the two _reader threads

\* The state of the mobly harness.
harnessVars == <<pc, attempt_num, tick, success, idx, held, queue, chan, trace, err,
                 connEmitted, connDelivered, connSeenAtEval, arrivals, scanArrivedAt>>

\* The state of StartScanning and of the build scripts (scripts/), which the
\* GATT session never touches.
queueVars == <<logq, maxsize, lines>>
scanVars == <<scan_duration, result>>
buildVars == <<host, args, fs, spos, attempt, effects, retval, exc, tasks>>
\* The state of utils.run.
runVars == <<proc, pipes, readers>>

scriptVars == <<queueVars, scanVars, buildVars, runVars>>

vars == <<harnessVars, scriptVars>>

(* ------------------------------ fixtures ------------------------------ *)

ADVERTISING_START_TIME == 30
SCAN_TIMEOUT == 20
CONNECTION_TIMEOUT == 60
max_attempts == 2

GATT_SUCCESS == "GATT_SUCCESS"
GATT_FAILURE == "GATT_FAILURE"
TEST_BLE_SERVICE_UUID == "fe23"
TEST_SCAN_RESPONSE_UUID == "e639"
DATA == "DATA"
SCAN_RESPONSE_DATA == "SCAN_RESPONSE_DATA"

\* UUIDs of SERVICE['Characteristics'], in the order of the fixture.
SERVICE_Characteristics == <<"e632", "e633", "e631", "e634", "e635">>
ServiceUUIDs == {SERVICE_Characteristics[k] : k \in 1..Len(SERVICE_Characteristics)}

\* The read fixtures (UUID, payload) in the order ReadCharacteristic uses them.
READ_UUIDS == <<"e631", "e634", "e635">>
READ_DATAS == <<"READ_DATA", "SECOND_READ_DATA", "THIRD_READ_DATA">>
\* The write fixtures in the order WriteCharacteristic uses them.
WRITE_UUIDS == <<"e632", "e633">>
WRITE_DATAS == <<"WRITE_DATA", "SECOND_WRITE_DATA">>

(* ------------------------------- events ------------------------------- *)

\* How many extra copies of an event a flaky stack may emit.
MaxExtra == 1

NoServices == {}

Event(name, status, state, data, services) ==
  [name |-> name, status |-> status, state |-> state, data |-> data,
   services |-> services, callback_id |-> 0]

\* The events of a reply as the callback handle with this id receives them.
OnHandle(reply, id) == [k \in 1..Len(reply) |-> [reply[k] EXCEPT !.callback_id = id]]

Svc(uuid, data, chars) == [UUID |-> uuid, Data |-> data, Characteristics |-> chars]

\* An event emitted once, or with up to MaxExtra duplicates.
Copies(e) == {[k \in 1..n |-> e] : n \in 1..(1 + MaxExtra)}

Handles == {"advertise_callback", "scan_callback", "server_callback", "client_callback"}

EmptyQueues == [h \in Handles |-> <<>>]

(* --------------------- callback handle operations --------------------- *)

Has(q, name) == \E k \in 1..Len(q) : q[k].name = name

FirstIdx(q, name) ==
  CHOOSE k \in 1..Len(q) : q[k].name = name /\ \A j \in 1..(k - 1) : q[j].name # name

RemoveAt(q, k) == SubSeq(q, 1, k - 1) \o SubSeq(q, k + 1, Len(q))

\* waitAndGet(name, timeout) when an event of that name is queued: the oldest one.
FirstNamed(q, name) == q[FirstIdx(q, name)]
WithoutFirst(q, name) == RemoveAt(q, FirstIdx(q, name))

\* getAll(name): every queued event of that name, in arrival order; they are removed.
GetAll(q, name) == SelectSeq(q, LAMBDA e : e.name = name)
Drained(q, name) == SelectSeq(q, LAMBDA e : e.name # name)

(* ------------------------------ the log ------------------------------- *)

\* A command issued to a device.
Cmd(n) == [k |-> "cmd", n |-> n, h |-> "", s |-> "", d |-> "", id |-> 0]
\* A command given the id of a callback handle.
CmdWith(n, id) == [k |-> "cmd", n |-> n, h |-> "", s |-> "", d |-> "", id |-> id]
\* A command on one characteristic of the test service.
CmdOn(n, uuid) == [k |-> "cmd", n |-> n, h |-> "", s |-> "", d |-> uuid, id |-> 0]
\* An event the harness took from the queue of handle h: its name, its status,
\* its state (connection events) or payload (the others) and the id of the
\* callback handle that received it.
Obs(h, e) == [k |-> "obs", n |-> e.name, h |-> h, s |-> e.status,
              d |-> IF e.state # "" THEN e.state ELSE e.data, id |-> e.callback_id]
\* A phase function returned normally.
Pass(phase) == [k |-> "pass", n |-> phase, h |-> "", s |-> "", d |-> "", id |-> 0]
\* An exception was raised.
Raised(kind) == [k |-> "raise", n |-> kind, h |-> "", s |-> "", d |-> "", id |-> 0]

NoErr == [kind |-> "none", at |-> "none"]

\* Normal continuation of the test method at position p, having logged entries.
Goto(p, entries) ==
  /\ pc' = p
  /\ trace' = trace \o entries
  /\ err' = err

\* The same with a rollback on the way out: scan stopped in a finally clause.
RaiseWithRollback(kind, entries) ==
  /\ pc' = "Failed"
  /\ trace' = trace \o entries \o <<Raised(kind), Cmd("bleStopScan")>>
  /\ err' = [kind |-> kind, at |-> pc]

\* An exception leaves the phase function and the test method: nothing of the
\* test method runs after it.
Raise(kind, entries) ==
  /\ pc' = "Failed"
  /\ trace' = trace \o entries \o <<Raised(kind)>>
  /\ err' = [kind |-> kind, at |-> pc]

Running == pc \notin {"Closed", "Returned", "Failed"}

(* ------------------------------- Init --------------------------------- *)

\* log_to_queue before it is called.
QueueIdle ==
  /\ logq = <<>>
  /\ maxsize = 1
  /\ lines = <<>>

\* StartScanning before it is called.
ScanIdle ==
  /\ scan_duration = SCAN_TIMEOUT
  /\ result = <<>>

\* Default command line of build_tools.py.
DefaultArgs ==
  [buildbot |-> FALSE, task |-> <<>>, out_dir |-> "tools/netsim/objs/",
   local_emulator_dir |-> "", pytest_input_dir |-> ""]

\* The build scripts before anything of them runs.
BuildIdle ==
  /\ host = [system |-> "Linux", machine |-> "x86_64"]
  /\ args = DefaultArgs
  /\ fs = {}
  /\ spos = "none"
  /\ attempt = 1
  /\ effects = <<>>
  /\ retval = "none"
  /\ exc = "none"
  /\ tasks = <<>>

\* utils.run before it is called.
RunIdle ==
  /\ proc = [state |-> "none", returncode |-> 0, written |-> 0]
  /\ pipes = [stdout |-> <<>>, stderr |-> <<>>]
  /\ readers = [stdout |-> "none", stderr |-> "none"]

ScriptsIdle == QueueIdle /\ ScanIdle /\ BuildIdle /\ RunIdle

\* The harness about to run position p, nothing issued or received yet.
HarnessAt(p) ==
  /\ pc = p
  /\ attempt_num = 0
  /\ tick = 0
  /\ success = FALSE
  /\ idx = 1
  /\ held = <<>>
  /\ queue = EmptyQueues
  /\ chan = EmptyQueues
  /\ trace = <<>>
  /\ err = NoErr
  /\ connEmitted = 0
  /\ connDelivered = 0
  /\ connSeenAtEval = 0
  /\ arrivals = <<>>
  /\ scanArrivedAt = -1

HarnessInit == HarnessAt("D_adv")

Init == HarnessInit /\ ScriptsIdle

(* ------------------------ asynchronous delivery ----------------------- *)

\* Seconds elapsed since Discover left its retry loop: the sleep of line 196
\* and then the wait of line 197 each count their seconds in tick.
Clock ==
  IF pc = "D_sleep" THEN tick
  ELSE IF pc = "D_wait" THEN SCAN_TIMEOUT + tick
  ELSE 0

\* The device's event source pushes the oldest event in flight for a handle
\* into that handle's queue.  Once the test method has returned or raised,
\* no harness step reads a queue any more and deliveries are left out.
Deliver(h) ==
  /\ Running
  /\ chan[h] # <<>>
  /\ chan' = [chan EXCEPT ![h] = Tail(@)]
  /\ queue' = [queue EXCEPT ![h] = Append(@, Head(chan[h]))]
  /\ connDelivered' = IF h = "client_callback"
                         /\ Head(chan[h]).name = "onConnectionStateChange"
                         /\ pc \in {"C_waitConn", "C_getAll"}
                      THEN connDelivered + 1 ELSE connDelivered
  /\ arrivals' = IF Head(chan[h]).name \in {"onCharacteristicWriteRequest", "onCharacteristicWrite"}
                 THEN Append(arrivals, Head(chan[h]).name) ELSE arrivals
  /\ scanArrivedAt' = IF /\ h = "scan_callback"
                         /\ scanArrivedAt = -1
                         /\ pc \in {"D_poll", "D_after", "D_sleep", "D_wait"}
                         /\ Head(chan[h]).name = "onScanResult"
                         /\ \E service \in Head(chan[h]).services :
                              service.UUID = TEST_BLE_SERVICE_UUID /\ service.Data = DATA
                      THEN Clock ELSE scanArrivedAt
  /\ UNCHANGED <<connEmitted, pc, attempt_num, tick, success, idx, held, trace, err, connSeenAtEval>>
  /\ UNCHANGED scriptVars

(* ------------------------------ Discover ------------------------------ *)

StartAdvertisingReplies ==
  { <<>>,
    <<Event("onStartSuccess", "", "", "", NoServices)>>,
    <<Event("onStartFailure", "", "", "", NoServices)>> }

ScanResult(services) == Event("onScanResult", "", "", "", services)
AdvertisedService == Svc(TEST_BLE_SERVICE_UUID, DATA, {})
ScanResponseService == Svc(TEST_SCAN_RESPONSE_UUID, SCAN_RESPONSE_DATA, {})
OtherService == Svc("ffff", "OTHER", {})

StartScanReplies ==
  { <<>>,
    <<ScanResult({AdvertisedService, ScanResponseService})>>,
    <<ScanResult({AdvertisedService})>>,
    <<ScanResult({OtherService}), ScanResult({AdvertisedService, ScanResponseService})>>,
    <<ScanResult({AdvertisedService}), ScanResult({AdvertisedService, ScanResponseService})>> }

\* line 159: a fresh advertise callback handle replaces the previous one.
D_StartAdvertising ==
  /\ pc = "D_adv"
  /\ \E reply \in StartAdvertisingReplies :
       /\ chan' = [chan EXCEPT !["advertise_callback"] = reply]
       /\ queue' = [queue EXCEPT !["advertise_callback"] = <<>>]
  /\ Goto("D_scan", <<Cmd("bleStartAdvertising")>>)
  /\ UNCHANGED <<connEmitted, attempt_num, tick, success, idx, held, connDelivered, connSeenAtEval, arrivals, scanArrivedAt>>
  /\ UNCHANGED scriptVars

\* bleStartScan handing back the callback handle of the previous attempt.
D_StartScanSameHandle ==
  /\ pc = "D_scan"
  /\ \E reply \in StartScanReplies :
       /\ chan' = [chan EXCEPT !["scan_callback"] = @ \o OnHandle(reply, attempt_num + 1)]
       /\ UNCHANGED queue
  /\ success' = FALSE
  /\ tick' = 0
  /\ scanArrivedAt' = -1
  /\ Goto("D_poll", <<Cmd("bleStartScan")>>)
  /\ UNCHANGED <<connEmitted, attempt_num, idx, held, connDelivered, connSeenAtEval, arrivals>>
  /\ UNCHANGED scriptVars

\* line 162: a fresh scan callback handle, the (attempt_num + 1)-th one,
\* replaces the previous one.
D_StartScan ==
  /\ pc = "D_scan"
  /\ \E reply \in StartScanReplies :
       /\ chan' = [chan EXCEPT !["scan_callback"] = OnHandle(reply, attempt_num + 1)]
       /\ queue' = [queue EXCEPT !["scan_callback"] = <<>>]
  /\ success' = FALSE
  /\ tick' = 0
  /\ scanArrivedAt' = -1
  /\ Goto("D_poll", <<Cmd("bleStartScan")>>)
  /\ UNCHANGED <<connEmitted, attempt_num, idx, held, connDelivered, connSeenAtEval, arrivals>>
  /\ UNCHANGED scriptVars

\* lines 166-180: one iteration of the polling loop (getAll failure, getAll
\* success, break or sleep one second); the loop ends on success or after
\* ADVERTISING_START_TIME iterations.
D_Poll ==
  /\ pc = "D_poll"
  /\ LET q == queue["advertise_callback"]
         q1 == Drained(q, "onStartFailure")
         got == GetAll(q1, "onStartSuccess")
     IN /\ queue' = [queue EXCEPT !["advertise_callback"] = Drained(q1, "onStartSuccess")]
        /\ success' = (got # <<>>)
        /\ IF got # <<>>
           THEN /\ tick' = tick
                /\ Goto("D_after", <<Obs("advertise_callback", got[1])>>)
           ELSE /\ tick' = tick + 1
                /\ Goto(IF tick + 1 = ADVERTISING_START_TIME THEN "D_after" ELSE "D_poll", <<>>)
  /\ UNCHANGED <<connEmitted, attempt_num, idx, held, chan, connDelivered, connSeenAtEval, arrivals, scanArrivedAt>>
  /\ UNCHANGED scriptVars

\* Raises as soon as one attempt misses its window.
D_AfterNoRetry ==
  /\ pc = "D_after"
  /\ IF ~success
     THEN /\ Raise("TimeoutError", <<>>)
          /\ UNCHANGED <<attempt_num, tick>>
     ELSE /\ attempt_num' = attempt_num + 1
          /\ tick' = 0
          /\ Goto(IF attempt_num + 1 < max_attempts THEN "D_adv" ELSE "D_sleep", <<>>)
  /\ UNCHANGED <<connEmitted, success, idx, held, queue, chan, connDelivered, connSeenAtEval, arrivals, scanArrivedAt>>
  /\ UNCHANGED scriptVars

\* lines 181-193 and the for statement of line 158: after the polling loop,
\* raise when the last attempt failed; otherwise go on with the next value of
\* range(max_attempts), or leave the loop when the range is exhausted.
D_After ==
  /\ pc = "D_after"
  /\ IF ~success /\ ~(attempt_num < max_attempts - 1)
     THEN /\ Raise("TimeoutError", <<>>)
          /\ UNCHANGED <<attempt_num, tick>>
     ELSE /\ attempt_num' = attempt_num + 1
          /\ tick' = 0
          /\ Goto(IF attempt_num + 1 < max_attempts THEN "D_adv" ELSE "D_sleep", <<>>)
  /\ UNCHANGED <<connEmitted, success, idx, held, queue, chan, connDelivered, connSeenAtEval, arrivals, scanArrivedAt>>
  /\ UNCHANGED scriptVars

IsRequiredScanResult(e) ==
  \E service \in e.services :
    service.UUID = TEST_BLE_SERVICE_UUID /\ service.Data = DATA

HasScanResponse(e) ==
  \E service \in e.services :
    service.UUID = TEST_SCAN_RESPONSE_UUID /\ service.Data = SCAN_RESPONSE_DATA

\* line 196: time.sleep(SCAN_TIMEOUT), one second per step.
D_Sleep ==
  /\ pc = "D_sleep"
  /\ IF tick < SCAN_TIMEOUT
     THEN tick' = tick + 1 /\ Goto("D_sleep", <<>>)
     ELSE tick' = 0 /\ Goto("D_wait", <<>>)
  /\ UNCHANGED <<connEmitted, attempt_num, success, idx, held, queue, chan, connDelivered, connSeenAtEval, arrivals, scanArrivedAt>>
  /\ UNCHANGED scriptVars

\* line 197: a second of waitForEvent passes without a required scan result.
D_WaitTick ==
  /\ pc = "D_wait"
  /\ tick < SCAN_TIMEOUT
  /\ ~\E k \in 1..Len(queue["scan_callback"]) :
        /\ queue["scan_callback"][k].name = "onScanResult"
        /\ IsRequiredScanResult(queue["scan_callback"][k])
  /\ tick' = tick + 1
  /\ Goto("D_wait", <<>>)
  /\ UNCHANGED <<connEmitted, attempt_num, success, idx, held, queue, chan, connDelivered, connSeenAtEval, arrivals, scanArrivedAt>>
  /\ UNCHANGED scriptVars

\* lines 197-218: waitForEvent takes onScanResult events until one satisfies
\* the predicate, or times out after SCAN_TIMEOUT seconds; then the two
\* assertions on the services of the event it returned.
D_WaitScan ==
  /\ pc = "D_wait"
  /\ LET q == queue["scan_callback"]
         hits == {k \in 1..Len(q) : q[k].name = "onScanResult" /\ IsRequiredScanResult(q[k])}
     IN IF hits # {}
        THEN LET k == CHOOSE m \in hits : \A n \in hits : m <= n
                 scan_result == q[k]
                 rest == SelectSeq(SubSeq(q, 1, k - 1), LAMBDA e : e.name # "onScanResult")
                           \o SubSeq(q, k + 1, Len(q))
             IN /\ queue' = [queue EXCEPT !["scan_callback"] = rest]
                /\ IF HasScanResponse(scan_result)
                   THEN /\ tick' = 0
                        /\ scanArrivedAt' = -1
                        /\ Goto("C_startServer", <<Obs("scan_callback", scan_result), Pass("Discover")>>)
                   ELSE /\ UNCHANGED <<tick, scanArrivedAt>>
                        /\ Raise("AssertionError", <<Obs("scan_callback", scan_result)>>)
        ELSE /\ tick = SCAN_TIMEOUT
             /\ queue' = [queue EXCEPT !["scan_callback"] = Drained(q, "onScanResult")]
             /\ UNCHANGED <<tick, scanArrivedAt>>
             /\ Raise("TimeoutError", <<>>)
  /\ UNCHANGED <<connEmitted, attempt_num, success, idx, held, chan, connDelivered, connSeenAtEval, arrivals>>
  /\ UNCHANGED scriptVars

(* ------------------------------ Connect ------------------------------- *)

ServiceAdded(status, chars) ==
  Event("onServiceAdded", status, "", "", {Svc(TEST_BLE_SERVICE_UUID, "", chars)})

\* A characteristic list of the right length in which "e635" is replaced.
WrongUUIDs == (ServiceUUIDs \ {"e635"}) \cup {"e6ff"}

StartServerReplies ==
  { <<>>,
    <<ServiceAdded(GATT_SUCCESS, ServiceUUIDs)>>,
    <<ServiceAdded(GATT_SUCCESS, ServiceUUIDs \cup {"e6ff"})>>,
    <<ServiceAdded(GATT_FAILURE, ServiceUUIDs)>>,
    <<ServiceAdded(GATT_SUCCESS, WrongUUIDs)>> }

ConnState(status, state) == Event("onConnectionStateChange", status, state, "", NoServices)
Connected == ConnState(GATT_SUCCESS, "STATE_CONNECTED")
Disconnected == ConnState(GATT_SUCCESS, "STATE_DISCONNECTED")

\* What the initiator's stack emits for one bleConnectGatt: nothing, the
\* connected event (possibly duplicated), or a failed connection.
ConnectClientReplies ==
  { <<>>, <<ConnState(GATT_FAILURE, "STATE_DISCONNECTED")>> } \cup Copies(Connected)

\* What the receiver's stack emits when the initiator connects.
ConnectServerReplies ==
  { <<>>, <<Connected>>, <<ConnState(GATT_SUCCESS, "STATE_DISCONNECTED")>> }

\* line 347
C_StartServer ==
  /\ pc = "C_startServer"
  /\ \E reply \in StartServerReplies :
       /\ chan' = [chan EXCEPT !["server_callback"] = reply]
       /\ queue' = [queue EXCEPT !["server_callback"] = <<>>]
  /\ Goto("C_waitAdded", <<Cmd("bleStartServer")>>)
  /\ UNCHANGED <<connEmitted, attempt_num, tick, success, idx, held, connDelivered, connSeenAtEval, arrivals, scanArrivedAt>>
  /\ UNCHANGED scriptVars

\* The check of onServiceAdded comparing the number of characteristics only.
C_WaitAddedCountOnly ==
  /\ pc = "C_waitAdded"
  /\ LET q == queue["server_callback"] IN
     IF Has(q, "onServiceAdded")
     THEN LET start_server_result == FirstNamed(q, "onServiceAdded")
              uuids == UNION {s.Characteristics : s \in start_server_result.services}
          IN /\ queue' = [queue EXCEPT !["server_callback"] = WithoutFirst(q, "onServiceAdded")]
             /\ IF /\ start_server_result.status = GATT_SUCCESS
                   /\ Cardinality(uuids) = Cardinality(ServiceUUIDs)
                THEN Goto("C_connect", <<Obs("server_callback", start_server_result)>>)
                ELSE Raise("AssertionError", <<Obs("server_callback", start_server_result)>>)
     ELSE /\ UNCHANGED queue
          /\ Raise("TimeoutError", <<>>)
  /\ UNCHANGED <<connEmitted, attempt_num, tick, success, idx, held, chan, connDelivered, connSeenAtEval, arrivals, scanArrivedAt>>
  /\ UNCHANGED scriptVars

\* lines 348-360
C_WaitAdded ==
  /\ pc = "C_waitAdded"
  /\ LET q == queue["server_callback"] IN
     IF Has(q, "onServiceAdded")
     THEN LET start_server_result == FirstNamed(q, "onServiceAdded")
              uuids == UNION {s.Characteristics : s \in start_server_result.services}
          IN /\ queue' = [queue EXCEPT !["server_callback"] = WithoutFirst(q, "onServiceAdded")]
             /\ IF /\ start_server_result.status = GATT_SUCCESS
                   /\ \A uuid \in ServiceUUIDs : uuid \in uuids
                THEN Goto("C_connect", <<Obs("server_callback", start_server_result)>>)
                ELSE Raise("AssertionError", <<Obs("server_callback", start_server_result)>>)
     ELSE /\ UNCHANGED queue
          /\ Raise("TimeoutError", <<>>)
  /\ UNCHANGED <<connEmitted, attempt_num, tick, success, idx, held, chan, connDelivered, connSeenAtEval, arrivals, scanArrivedAt>>
  /\ UNCHANGED scriptVars

\* lines 361-363: a fresh client callback handle; both stacks react.
C_ConnectGatt ==
  /\ pc = "C_connect"
  /\ \E creply \in ConnectClientReplies, sreply \in ConnectServerReplies :
       /\ chan' = [chan EXCEPT !["client_callback"] = creply,
                               !["server_callback"] = @ \o sreply]
       /\ queue' = [queue EXCEPT !["client_callback"] = <<>>]
       /\ connEmitted' = Len(creply)
  /\ connDelivered' = 0
  /\ Goto("C_waitConn", <<Cmd("bleConnectGatt")>>)
  /\ UNCHANGED <<attempt_num, tick, success, idx, held, connSeenAtEval, arrivals, scanArrivedAt>>
  /\ UNCHANGED scriptVars

\* lines 364-366
C_WaitConn ==
  /\ pc = "C_waitConn"
  /\ LET q == queue["client_callback"] IN
     IF Has(q, "onConnectionStateChange")
     THEN /\ held' = <<FirstNamed(q, "onConnectionStateChange")>>
          /\ queue' = [queue EXCEPT !["client_callback"] = WithoutFirst(q, "onConnectionStateChange")]
          /\ Goto("C_getAll", <<Obs("client_callback", FirstNamed(q, "onConnectionStateChange"))>>)
     ELSE /\ UNCHANGED <<queue, held>>
          /\ Raise("TimeoutError", <<>>)
  /\ UNCHANGED <<connEmitted, attempt_num, tick, success, idx, chan, connDelivered, connSeenAtEval, arrivals, scanArrivedAt>>
  /\ UNCHANGED scriptVars

\* The drain of line 367 with its assertion left out.
C_GetAllNoExtraCheck ==
  /\ pc = "C_getAll"
  /\ LET q == queue["client_callback"]
         start_client_result == held[1]
     IN /\ queue' = [queue EXCEPT !["client_callback"] = Drained(q, "onConnectionStateChange")]
        /\ connSeenAtEval' = connDelivered
        /\ held' = <<>>
        /\ IF /\ start_client_result.status = GATT_SUCCESS
              /\ start_client_result.state = "STATE_CONNECTED"
           THEN Goto("C_waitServer", <<>>)
           ELSE Raise("AssertionError", <<>>)
  /\ UNCHANGED <<connEmitted, attempt_num, tick, success, idx, chan, connDelivered, arrivals, scanArrivedAt>>
  /\ UNCHANGED scriptVars

\* lines 367-375: drain the extra state changes, assert there are none, then
\* assert status and state of the event waitAndGet returned.
C_GetAll ==
  /\ pc = "C_getAll"
  /\ LET q == queue["client_callback"]
         start_client_result == held[1]
         extra_events == GetAll(q, "onConnectionStateChange")
     IN /\ queue' = [queue EXCEPT !["client_callback"] = Drained(q, "onConnectionStateChange")]
        /\ connSeenAtEval' = connDelivered
        /\ held' = <<>>
        /\ IF /\ extra_events = <<>>
              /\ start_client_result.status = GATT_SUCCESS
              /\ start_client_result.state = "STATE_CONNECTED"
           THEN Goto("C_waitServer", <<>>)
           ELSE Raise("AssertionError", [k \in 1..Len(extra_events) |-> Obs("client_callback", extra_events[k])])
  /\ UNCHANGED <<connEmitted, attempt_num, tick, success, idx, chan, connDelivered, arrivals, scanArrivedAt>>
  /\ UNCHANGED scriptVars

\* Connect returning once the initiator's event was verified, the receiver's
\* queue left unread.
C_WaitServerSkipped ==
  /\ pc = "C_waitServer"
  /\ UNCHANGED queue
  /\ Goto("S_discover", <<Pass("Connect")>>)
  /\ UNCHANGED <<connEmitted, attempt_num, tick, success, idx, held, chan, connDelivered, connSeenAtEval, arrivals, scanArrivedAt>>
  /\ UNCHANGED scriptVars

\* lines 377-384
C_WaitServer ==
  /\ pc = "C_waitServer"
  /\ LET q == queue["server_callback"] IN
     IF Has(q, "onConnectionStateChange")
     THEN LET server_event == FirstNamed(q, "onConnectionStateChange") IN
          /\ queue' = [queue EXCEPT !["server_callback"] = WithoutFirst(q, "onConnectionStateChange")]
          /\ IF server_event.status = GATT_SUCCESS /\ server_event.state = "STATE_CONNECTED"
             THEN Goto("S_discover", <<Obs("server_callback", server_event), Pass("Connect")>>)
             ELSE Raise("AssertionError", <<Obs("server_callback", server_event)>>)
     ELSE /\ UNCHANGED queue
          /\ Raise("TimeoutError", <<>>)
  /\ UNCHANGED <<connEmitted, attempt_num, tick, success, idx, held, chan, connDelivered, connSeenAtEval, arrivals, scanArrivedAt>>
  /\ UNCHANGED scriptVars

(* -------------------------- DiscoverServices -------------------------- *)

ServiceDiscovered(status, services) ==
  Event("onServiceDiscovered", status, "", "", services)

TestService(chars) == Svc(TEST_BLE_SERVICE_UUID, "", chars)

DiscoverServicesReplies ==
  { <<>>,
    <<ServiceDiscovered(GATT_SUCCESS, {TestService(ServiceUUIDs)})>>,
    <<ServiceDiscovered(GATT_SUCCESS, {TestService(ServiceUUIDs \cup {"e6ff"}), Svc("1800", "", {})})>>,
    <<ServiceDiscovered(GATT_SUCCESS, {TestService(ServiceUUIDs)}),
      ServiceDiscovered(GATT_SUCCESS, {TestService(ServiceUUIDs)})>>,
    <<ServiceDiscovered(GATT_FAILURE, {TestService(ServiceUUIDs)})>>,
    <<ServiceDiscovered(GATT_SUCCESS, {TestService(WrongUUIDs)})>>,
    <<ServiceDiscovered(GATT_SUCCESS, {Svc("1800", "", {})})>>,
    <<ServiceDiscovered(GATT_SUCCESS, {TestService(ServiceUUIDs), TestService(WrongUUIDs)})>> }

\* line 432
S_Discover ==
  /\ pc = "S_discover"
  /\ \E reply \in DiscoverServicesReplies :
       chan' = [chan EXCEPT !["client_callback"] = @ \o reply]
  /\ Goto("S_getAll", <<Cmd("bleDiscoverServices")>>)
  /\ UNCHANGED <<connEmitted, attempt_num, tick, success, idx, held, queue, connDelivered, connSeenAtEval, arrivals, scanArrivedAt>>
  /\ UNCHANGED scriptVars

\* The drain of DiscoverServices checking the first event only, whatever the
\* number of events drained.
S_GetAllFirstOnly ==
  /\ pc = "S_getAll"
  /\ LET q == queue["client_callback"]
         discover_services_results == GetAll(q, "onServiceDiscovered")
     IN /\ queue' = [queue EXCEPT !["client_callback"] = Drained(q, "onServiceDiscovered")]
        /\ IF /\ Len(discover_services_results) >= 1
              /\ discover_services_results[1].status = GATT_SUCCESS
              /\ \A service \in discover_services_results[1].services :
                   service.UUID = TEST_BLE_SERVICE_UUID =>
                     \A uuid \in ServiceUUIDs : uuid \in service.Characteristics
              /\ \E service \in discover_services_results[1].services :
                   service.UUID = TEST_BLE_SERVICE_UUID
           THEN Goto("R_read", <<Obs("client_callback", discover_services_results[1]), Pass("DiscoverServices")>>)
           ELSE Raise("AssertionError",
                      [k \in 1..Len(discover_services_results) |-> Obs("client_callback", discover_services_results[k])])
  /\ idx' = 1
  /\ UNCHANGED <<connEmitted, attempt_num, tick, success, held, chan, connDelivered, connSeenAtEval, arrivals, scanArrivedAt>>
  /\ UNCHANGED scriptVars

\* The drain of DiscoverServices with its failures logged instead of raised.
S_GetAllLogOnly ==
  /\ pc = "S_getAll"
  /\ LET q == queue["client_callback"]
         discover_services_results == GetAll(q, "onServiceDiscovered")
     IN /\ queue' = [queue EXCEPT !["client_callback"] = Drained(q, "onServiceDiscovered")]
        /\ IF /\ Len(discover_services_results) = 1
              /\ discover_services_results[1].status = GATT_SUCCESS
              /\ \A service \in discover_services_results[1].services :
                   service.UUID = TEST_BLE_SERVICE_UUID =>
                     \A uuid \in ServiceUUIDs : uuid \in service.Characteristics
              /\ \E service \in discover_services_results[1].services :
                   service.UUID = TEST_BLE_SERVICE_UUID
           THEN Goto("R_read", <<Obs("client_callback", discover_services_results[1]), Pass("DiscoverServices")>>)
           ELSE Goto("R_read", <<>>)
  /\ idx' = 1
  /\ UNCHANGED <<connEmitted, attempt_num, tick, success, held, chan, connDelivered, connSeenAtEval, arrivals, scanArrivedAt>>
  /\ UNCHANGED scriptVars

\* lines 433-453: after the sleep, whatever has arrived is drained and checked.
S_GetAll ==
  /\ pc = "S_getAll"
  /\ LET q == queue["client_callback"]
         discover_services_results == GetAll(q, "onServiceDiscovered")
     IN /\ queue' = [queue EXCEPT !["client_callback"] = Drained(q, "onServiceDiscovered")]
        /\ IF /\ Len(discover_services_results) = 1
              /\ discover_services_results[1].status = GATT_SUCCESS
              /\ \A service \in discover_services_results[1].services :
                   service.UUID = TEST_BLE_SERVICE_UUID =>
                     \A uuid \in ServiceUUIDs : uuid \in service.Characteristics
              /\ \E service \in discover_services_results[1].services :
                   service.UUID = TEST_BLE_SERVICE_UUID
           THEN Goto("R_read", <<Obs("client_callback", discover_services_results[1]), Pass("DiscoverServices")>>)
           ELSE Raise("AssertionError",
                      [k \in 1..Len(discover_services_results) |-> Obs("client_callback", discover_services_results[k])])
  /\ idx' = 1
  /\ UNCHANGED <<connEmitted, attempt_num, tick, success, held, chan, connDelivered, connSeenAtEval, arrivals, scanArrivedAt>>
  /\ UNCHANGED scriptVars

(* --------------------------- ReadCharacteristic ----------------------- *)

CharRead(status, data) == Event("onCharacteristicRead", status, "", data, NoServices)

\* What the stack emits for the read of the i-th read characteristic: nothing,
\* its payload (possibly duplicated), the payload of the next read
\* characteristic, or its payload with a failure status.
ReadReplies(i) ==
  Copies(CharRead(GATT_SUCCESS, READ_DATAS[i])) \cup
  { <<>>,
    <<CharRead(GATT_SUCCESS, READ_DATAS[(i % Len(READ_DATAS)) + 1])>>,
    <<CharRead(GATT_FAILURE, READ_DATAS[i])>> }

\* lines 469-474, 481-486, 493-498: the read of the idx-th characteristic is
\* issued; a false return value fails the assertion.
R_Read ==
  /\ pc = "R_read"
  /\ \E read_operation_result \in BOOLEAN :
       IF read_operation_result
       THEN /\ \E reply \in ReadReplies(idx) :
                 chan' = [chan EXCEPT !["client_callback"] = @ \o reply]
            /\ Goto("R_wait", <<CmdOn("bleReadOperation", READ_UUIDS[idx])>>)
       ELSE /\ UNCHANGED chan
            /\ Raise("AssertionError", <<CmdOn("bleReadOperation", READ_UUIDS[idx])>>)
  /\ UNCHANGED <<connEmitted, attempt_num, tick, success, idx, held, queue, connDelivered, connSeenAtEval, arrivals, scanArrivedAt>>
  /\ UNCHANGED scriptVars

\* The wait of a read with the payload comparison left out.
R_WaitNoDataCheck ==
  /\ pc = "R_wait"
  /\ LET q == queue["client_callback"] IN
     IF Has(q, "onCharacteristicRead")
     THEN LET read_operation_result == FirstNamed(q, "onCharacteristicRead") IN
          /\ queue' = [queue EXCEPT !["client_callback"] = WithoutFirst(q, "onCharacteristicRead")]
          /\ IF read_operation_result.status = GATT_SUCCESS
             THEN /\ idx' = IF idx < Len(READ_UUIDS) THEN idx + 1 ELSE 1
                  /\ IF idx < Len(READ_UUIDS)
                     THEN Goto("R_read", <<Obs("client_callback", read_operation_result)>>)
                     ELSE Goto("W_write", <<Obs("client_callback", read_operation_result), Pass("ReadCharacteristic")>>)
             ELSE /\ idx' = idx
                  /\ Raise("AssertionError", <<Obs("client_callback", read_operation_result)>>)
     ELSE /\ UNCHANGED <<queue, idx>>
          /\ Raise("TimeoutError", <<>>)
  /\ UNCHANGED <<connEmitted, attempt_num, tick, success, held, chan, connDelivered, connSeenAtEval, arrivals, scanArrivedAt>>
  /\ UNCHANGED scriptVars

\* The wait of a read issuing the same read again when no event came.
R_WaitRetryOnTimeout ==
  /\ pc = "R_wait"
  /\ LET q == queue["client_callback"] IN
     IF Has(q, "onCharacteristicRead")
     THEN LET read_operation_result == FirstNamed(q, "onCharacteristicRead") IN
          /\ queue' = [queue EXCEPT !["client_callback"] = WithoutFirst(q, "onCharacteristicRead")]
          /\ IF /\ read_operation_result.status = GATT_SUCCESS
                /\ read_operation_result.data = READ_DATAS[idx]
             THEN /\ idx' = IF idx < Len(READ_UUIDS) THEN idx + 1 ELSE 1
                  /\ IF idx < Len(READ_UUIDS)
                     THEN Goto("R_read", <<Obs("client_callback", read_operation_result)>>)
                     ELSE Goto("W_write", <<Obs("client_callback", read_operation_result), Pass("ReadCharacteristic")>>)
             ELSE /\ idx' = idx
                  /\ Raise("AssertionError", <<Obs("client_callback", read_operation_result)>>)
     ELSE /\ UNCHANGED <<queue, idx>>
          /\ Goto("R_read", <<>>)
  /\ UNCHANGED <<connEmitted, attempt_num, tick, success, held, chan, connDelivered, connSeenAtEval, arrivals, scanArrivedAt>>
  /\ UNCHANGED scriptVars

\* lines 475-480, 487-492, 499-504: wait for the read event, assert its
\* status and its payload against the idx-th fixture.
R_Wait ==
  /\ pc = "R_wait"
  /\ LET q == queue["client_callback"] IN
     IF Has(q, "onCharacteristicRead")
     THEN LET read_operation_result == FirstNamed(q, "onCharacteristicRead") IN
          /\ queue' = [queue EXCEPT !["client_callback"] = WithoutFirst(q, "onCharacteristicRead")]
          /\ IF /\ read_operation_result.status = GATT_SUCCESS
                /\ read_operation_result.data = READ_DATAS[idx]
             THEN /\ idx' = IF idx < Len(READ_UUIDS) THEN idx + 1 ELSE 1
                  /\ IF idx < Len(READ_UUIDS)
                     THEN Goto("R_read", <<Obs("client_callback", read_operation_result)>>)
                     ELSE Goto("W_write", <<Obs("client_callback", read_operation_result), Pass("ReadCharacteristic")>>)
             ELSE /\ idx' = idx
                  /\ Raise("AssertionError", <<Obs("client_callback", read_operation_result)>>)
     ELSE /\ UNCHANGED <<queue, idx>>
          /\ Raise("TimeoutError", <<>>)
  /\ UNCHANGED <<connEmitted, attempt_num, tick, success, held, chan, connDelivered, connSeenAtEval, arrivals, scanArrivedAt>>
  /\ UNCHANGED scriptVars

(* -------------------------- WriteCharacteristic ----------------------- *)

WriteRequest(data) == Event("onCharacteristicWriteRequest", "", "", data, NoServices)
CharWrite(status) == Event("onCharacteristicWrite", status, "", "", NoServices)

\* What the receiver's stack emits for the i-th write: nothing, the request
\* with the bytes sent, or the request with other bytes.
WriteServerReplies(i) ==
  { <<>>, <<WriteRequest(WRITE_DATAS[i])>>, <<WriteRequest("OTHER")>> }

\* What the initiator's stack emits for a write: nothing or the completion.
WriteClientReplies ==
  { <<>>, <<CharWrite(GATT_SUCCESS)>>, <<CharWrite(GATT_FAILURE)>> }

\* lines 523-528, 535-540
W_Write ==
  /\ pc = "W_write"
  /\ \E write_operation_result \in BOOLEAN :
       IF write_operation_result
       THEN /\ \E sreply \in WriteServerReplies(idx), creply \in WriteClientReplies :
                 chan' = [chan EXCEPT !["server_callback"] = @ \o sreply,
                                      !["client_callback"] = @ \o creply]
            /\ Goto("W_waitServer", <<CmdOn("bleWriteOperation", WRITE_UUIDS[idx])>>)
       ELSE /\ UNCHANGED chan
            /\ Raise("AssertionError", <<CmdOn("bleWriteOperation", WRITE_UUIDS[idx])>>)
  /\ arrivals' = <<>>
  /\ UNCHANGED <<connEmitted, attempt_num, tick, success, idx, held, queue, connDelivered, connSeenAtEval, scanArrivedAt>>
  /\ UNCHANGED scriptVars

\* The server-side wait of a write with the payload comparison left out.
W_WaitServerNoDataCheck ==
  /\ pc = "W_waitServer"
  /\ LET q == queue["server_callback"] IN
     IF Has(q, "onCharacteristicWriteRequest")
     THEN LET server_write_operation_result == FirstNamed(q, "onCharacteristicWriteRequest") IN
          /\ queue' = [queue EXCEPT !["server_callback"] = WithoutFirst(q, "onCharacteristicWriteRequest")]
          /\ Goto("W_waitClient", <<Obs("server_callback", server_write_operation_result)>>)
     ELSE /\ UNCHANGED queue
          /\ Raise("TimeoutError", <<>>)
  /\ UNCHANGED <<connEmitted, attempt_num, tick, success, idx, held, chan, connDelivered, connSeenAtEval, arrivals, scanArrivedAt>>
  /\ UNCHANGED scriptVars

\* The server-side wait of a write that also flushes the write completions
\* already queued on the client handle.
W_WaitServerFlushClient ==
  /\ pc = "W_waitServer"
  /\ LET q == queue["server_callback"] IN
     IF Has(q, "onCharacteristicWriteRequest")
     THEN LET server_write_operation_result == FirstNamed(q, "onCharacteristicWriteRequest") IN
          /\ queue' = [queue EXCEPT
                         !["server_callback"] = WithoutFirst(q, "onCharacteristicWriteRequest"),
                         !["client_callback"] = Drained(@, "onCharacteristicWrite")]
          /\ IF server_write_operation_result.data = WRITE_DATAS[idx]
             THEN Goto("W_waitClient", <<Obs("server_callback", server_write_operation_result)>>)
             ELSE Raise("AssertionError", <<Obs("server_callback", server_write_operation_result)>>)
     ELSE /\ UNCHANGED queue
          /\ Raise("TimeoutError", <<>>)
  /\ UNCHANGED <<connEmitted, attempt_num, tick, success, idx, held, chan, connDelivered, connSeenAtEval, arrivals, scanArrivedAt>>
  /\ UNCHANGED scriptVars

\* The server-side wait of a write going on to the next write without the
\* wait for the initiator's completion event.
W_WaitServerThenNextWrite ==
  /\ pc = "W_waitServer"
  /\ LET q == queue["server_callback"] IN
     IF Has(q, "onCharacteristicWriteRequest")
     THEN LET server_write_operation_result == FirstNamed(q, "onCharacteristicWriteRequest") IN
          /\ queue' = [queue EXCEPT !["server_callback"] = WithoutFirst(q, "onCharacteristicWriteRequest")]
          /\ IF server_write_operation_result.data # WRITE_DATAS[idx]
             THEN /\ Raise("AssertionError", <<Obs("server_callback", server_write_operation_result)>>)
                  /\ UNCHANGED idx
             ELSE IF idx < Len(WRITE_UUIDS)
             THEN /\ Goto("W_write", <<Obs("server_callback", server_write_operation_result)>>)
                  /\ idx' = idx + 1
             ELSE /\ Goto("W_waitClient", <<Obs("server_callback", server_write_operation_result)>>)
                  /\ UNCHANGED idx
     ELSE /\ UNCHANGED <<queue, idx>>
          /\ Raise("TimeoutError", <<>>)
  /\ UNCHANGED <<connEmitted, attempt_num, tick, success, held, chan, connDelivered, connSeenAtEval, arrivals, scanArrivedAt>>
  /\ UNCHANGED scriptVars

\* lines 529-532, 541-546
W_WaitServer ==
  /\ pc = "W_waitServer"
  /\ LET q == queue["server_callback"] IN
     IF Has(q, "onCharacteristicWriteRequest")
     THEN LET server_write_operation_result == FirstNamed(q, "onCharacteristicWriteRequest") IN
          /\ queue' = [queue EXCEPT !["server_callback"] = WithoutFirst(q, "onCharacteristicWriteRequest")]
          /\ IF server_write_operation_result.data = WRITE_DATAS[idx]
             THEN Goto("W_waitClient", <<Obs("server_callback", server_write_operation_result)>>)
             ELSE Raise("AssertionError", <<Obs("server_callback", server_write_operation_result)>>)
     ELSE /\ UNCHANGED queue
          /\ Raise("TimeoutError", <<>>)
  /\ UNCHANGED <<connEmitted, attempt_num, tick, success, idx, held, chan, connDelivered, connSeenAtEval, arrivals, scanArrivedAt>>
  /\ UNCHANGED scriptVars

\* The initiator-side wait of a write asserting the status of the event.
W_WaitClientStatusChecked ==
  /\ pc = "W_waitClient"
  /\ LET q == queue["client_callback"] IN
     IF Has(q, "onCharacteristicWrite")
     THEN /\ queue' = [queue EXCEPT !["client_callback"] = WithoutFirst(q, "onCharacteristicWrite")]
          /\ IF FirstNamed(q, "onCharacteristicWrite").status # GATT_SUCCESS
             THEN /\ Raise("AssertionError", <<Obs("client_callback", FirstNamed(q, "onCharacteristicWrite"))>>)
                  /\ UNCHANGED idx
             ELSE /\ idx' = IF idx < Len(WRITE_UUIDS) THEN idx + 1 ELSE 1
                  /\ IF idx < Len(WRITE_UUIDS)
                     THEN Goto("W_write", <<Obs("client_callback", FirstNamed(q, "onCharacteristicWrite"))>>)
                     ELSE Goto("X_disconnect", <<Obs("client_callback", FirstNamed(q, "onCharacteristicWrite")),
                                                 Pass("WriteCharacteristic")>>)
     ELSE /\ UNCHANGED <<queue, idx>>
          /\ Raise("TimeoutError", <<>>)
  /\ UNCHANGED <<connEmitted, attempt_num, tick, success, held, chan, connDelivered, connSeenAtEval, arrivals, scanArrivedAt>>
  /\ UNCHANGED scriptVars

\* lines 533-534, 547-548
W_WaitClient ==
  /\ pc = "W_waitClient"
  /\ LET q == queue["client_callback"] IN
     IF Has(q, "onCharacteristicWrite")
     THEN /\ queue' = [queue EXCEPT !["client_callback"] = WithoutFirst(q, "onCharacteristicWrite")]
          /\ idx' = IF idx < Len(WRITE_UUIDS) THEN idx + 1 ELSE 1
          /\ IF idx < Len(WRITE_UUIDS)
             THEN Goto("W_write", <<Obs("client_callback", FirstNamed(q, "onCharacteristicWrite"))>>)
             ELSE Goto("X_disconnect", <<Obs("client_callback", FirstNamed(q, "onCharacteristicWrite")),
                                         Pass("WriteCharacteristic")>>)
     ELSE /\ UNCHANGED <<queue, idx>>
          /\ Raise("TimeoutError", <<>>)
  /\ UNCHANGED <<connEmitted, attempt_num, tick, success, held, chan, connDelivered, connSeenAtEval, arrivals, scanArrivedAt>>
  /\ UNCHANGED scriptVars

(* ------------------------ Disconnect, StopDiscover -------------------- *)

DisconnectReplies ==
  { <<>>, <<Disconnected>>, <<ConnState(GATT_FAILURE, "STATE_DISCONNECTED")>> }

\* line 406
X_Disconnect ==
  /\ pc = "X_disconnect"
  /\ \E reply \in DisconnectReplies :
       chan' = [chan EXCEPT !["client_callback"] = @ \o reply]
  /\ Goto("X_wait", <<Cmd("bleDisconnect")>>)
  /\ UNCHANGED <<connEmitted, attempt_num, tick, success, idx, held, queue, connDelivered, connSeenAtEval, arrivals, scanArrivedAt>>
  /\ UNCHANGED scriptVars

\* The wait of Disconnect skipping the state changes that are not a
\* disconnection (a waitForEvent with a predicate in place of waitAndGet).
X_WaitSkipStale ==
  /\ pc = "X_wait"
  /\ LET q == queue["client_callback"]
         hits == {k \in 1..Len(q) : q[k].name = "onConnectionStateChange"
                                      /\ q[k].state = "STATE_DISCONNECTED"}
     IN IF hits # {}
        THEN LET k == CHOOSE m \in hits : \A n \in hits : m <= n
                 stop_client_result == q[k]
             IN /\ queue' = [queue EXCEPT !["client_callback"] =
                               Drained(SubSeq(q, 1, k - 1), "onConnectionStateChange")
                                 \o SubSeq(q, k + 1, Len(q))]
                /\ IF stop_client_result.status = GATT_SUCCESS
                   THEN Goto("X_stopServer", <<Obs("client_callback", stop_client_result)>>)
                   ELSE Raise("AssertionError", <<Obs("client_callback", stop_client_result)>>)
        ELSE /\ queue' = [queue EXCEPT !["client_callback"] = Drained(q, "onConnectionStateChange")]
             /\ Raise("TimeoutError", <<>>)
  /\ UNCHANGED <<connEmitted, attempt_num, tick, success, idx, held, chan, connDelivered, connSeenAtEval, arrivals, scanArrivedAt>>
  /\ UNCHANGED scriptVars

\* The wait of Disconnect checking the state of the event but not its status.
X_WaitNoStatusCheck ==
  /\ pc = "X_wait"
  /\ LET q == queue["client_callback"] IN
     IF Has(q, "onConnectionStateChange")
     THEN LET stop_client_result == FirstNamed(q, "onConnectionStateChange") IN
          /\ queue' = [queue EXCEPT !["client_callback"] = WithoutFirst(q, "onConnectionStateChange")]
          /\ IF stop_client_result.state = "STATE_DISCONNECTED"
             THEN Goto("X_stopServer", <<Obs("client_callback", stop_client_result)>>)
             ELSE Raise("AssertionError", <<Obs("client_callback", stop_client_result)>>)
     ELSE /\ UNCHANGED queue
          /\ Raise("TimeoutError", <<>>)
  /\ UNCHANGED <<connEmitted, attempt_num, tick, success, idx, held, chan, connDelivered, connSeenAtEval, arrivals, scanArrivedAt>>
  /\ UNCHANGED scriptVars

\* lines 407-412
X_Wait ==
  /\ pc = "X_wait"
  /\ LET q == queue["client_callback"] IN
     IF Has(q, "onConnectionStateChange")
     THEN LET stop_client_result == FirstNamed(q, "onConnectionStateChange") IN
          /\ queue' = [queue EXCEPT !["client_callback"] = WithoutFirst(q, "onConnectionStateChange")]
          /\ IF /\ stop_client_result.status = GATT_SUCCESS
                /\ stop_client_result.state = "STATE_DISCONNECTED"
             THEN Goto("X_stopServer", <<Obs("client_callback", stop_client_result)>>)
             ELSE Raise("AssertionError", <<Obs("client_callback", stop_client_result)>>)
     ELSE /\ UNCHANGED queue
          /\ Raise("TimeoutError", <<>>)
  /\ UNCHANGED <<connEmitted, attempt_num, tick, success, idx, held, chan, connDelivered, connSeenAtEval, arrivals, scanArrivedAt>>
  /\ UNCHANGED scriptVars

\* lines 413-414
X_StopServer ==
  /\ pc = "X_stopServer"
  /\ Goto("T_stopScan", <<Cmd("bleStopServer"), Pass("Disconnect")>>)
  /\ UNCHANGED <<connEmitted, attempt_num, tick, success, idx, held, queue, chan, connDelivered, connSeenAtEval, arrivals, scanArrivedAt>>
  /\ UNCHANGED scriptVars

\* The callback_id of the handle the last call of command n returned: the
\* calls return handles 1, 2, ... and the attribute holds the last one.
callback_id(n) == Len(SelectSeq(trace, LAMBDA e : e.k = "cmd" /\ e.n = n))

\* lines 308-309: bleStopScan(scanner.scan_callback.callback_id)
T_StopScan ==
  /\ pc = "T_stopScan"
  /\ Goto("T_stopAdvertising", <<CmdWith("bleStopScan", callback_id("bleStartScan"))>>)
  /\ UNCHANGED <<connEmitted, attempt_num, tick, success, idx, held, queue, chan, connDelivered, connSeenAtEval, arrivals, scanArrivedAt>>
  /\ UNCHANGED scriptVars

\* lines 310-313: bleStopAdvertising(advertiser.advertise_callback.callback_id);
\* the test method returns.
T_StopAdvertising ==
  /\ pc = "T_stopAdvertising"
  /\ Goto("Closed", <<CmdWith("bleStopAdvertising", callback_id("bleStartAdvertising")),
                     Pass("StopDiscover")>>)
  /\ UNCHANGED <<connEmitted, attempt_num, tick, success, idx, held, queue, chan, connDelivered, connSeenAtEval, arrivals, scanArrivedAt>>
  /\ UNCHANGED scriptVars

(* ------------------------ a refused command --------------------------- *)

\* The device call made at each position of the harness.
CommandAt(p) ==
  IF p = "D_adv" THEN "bleStartAdvertising"
  ELSE IF p = "D_scan" THEN "bleStartScan"
  ELSE IF p = "C_startServer" THEN "bleStartServer"
  ELSE IF p = "C_connect" THEN "bleConnectGatt"
  ELSE IF p = "S_discover" THEN "bleDiscoverServices"
  ELSE IF p = "R_read" THEN "bleReadOperation"
  ELSE IF p = "W_write" THEN "bleWriteOperation"
  ELSE IF p = "X_disconnect" THEN "bleDisconnect"
  ELSE IF p = "X_stopServer" THEN "bleStopServer"
  ELSE IF p = "T_stopScan" THEN "bleStopScan"
  ELSE IF p = "T_stopAdvertising" THEN "bleStopAdvertising"
  ELSE IF p = "SS_scan" THEN "bleStartScan"
  ELSE ""

\* The log entry of the call made at position p.
Issued(p) ==
  IF p = "R_read" THEN CmdOn(CommandAt(p), READ_UUIDS[idx])
  ELSE IF p = "W_write" THEN CmdOn(CommandAt(p), WRITE_UUIDS[idx])
  ELSE Cmd(CommandAt(p))

\* The retry loop of Discover catching the exception of its start commands
\* and going on with the next attempt.
CommandRejectedRetried ==
  /\ CommandAt(pc) # ""
  /\ IF pc \in {"D_adv", "D_scan"} /\ attempt_num < max_attempts - 1
     THEN /\ pc' = "D_adv"
          /\ trace' = trace \o <<Issued(pc), Raised("RejectedError")>>
          /\ err' = err
          /\ attempt_num' = attempt_num + 1
     ELSE /\ Raise("RejectedError", <<Issued(pc)>>)
          /\ UNCHANGED attempt_num
  /\ UNCHANGED <<connEmitted, tick, success, idx, held, queue, chan, connDelivered, connSeenAtEval, arrivals, scanArrivedAt>>
  /\ UNCHANGED scriptVars

\* A device call (server.mbs.* / client.mbs.*) raises instead of returning: no
\* call of the harness stands in a try statement, so the exception leaves the
\* phase function and the test method. No event is emitted for the call.
CommandRejected ==
  /\ CommandAt(pc) # ""
  /\ Raise("RejectedError", <<Issued(pc)>>)
  /\ UNCHANGED <<connEmitted, attempt_num, tick, success, idx, held, queue, chan, connDelivered, connSeenAtEval, arrivals, scanArrivedAt>>
  /\ UNCHANGED scriptVars
Next ==
  \/ \E h \in Handles : Deliver(h)
  \/ CommandRejected
  \/ D_StartAdvertising
  \/ D_StartScan
  \/ D_Poll
  \/ D_After
  \/ D_Sleep
  \/ D_WaitTick
  \/ D_WaitScan
  \/ C_StartServer
  \/ C_WaitAdded
  \/ C_ConnectGatt
  \/ C_WaitConn
  \/ C_GetAll
  \/ C_WaitServer
  \/ S_Discover
  \/ S_GetAll
  \/ R_Read
  \/ R_Wait
  \/ W_Write
  \/ W_WaitServer
  \/ W_WaitClient
  \/ X_Disconnect
  \/ X_Wait
  \/ X_StopServer
  \/ T_StopScan
  \/ T_StopAdvertising

Spec == Init /\ [][Next]_vars

(* ----------------------- reading the log ------------------------------ *)

TraceIdx == 1..Len(trace)
IsCmd(k, n) == trace[k].k = "cmd" /\ trace[k].n = n
IsObs(k, h, n) == trace[k].k = "obs" /\ trace[k].h = h /\ trace[k].n = n
CmdIdx(n) == {k \in TraceIdx : IsCmd(k, n)}
ObsIdx(h, n) == {k \in TraceIdx : IsObs(k, h, n)}
Passed(phase) == \E k \in TraceIdx : trace[k] = Pass(phase)
\* The i-th smallest element of a set of indices (i <= its cardinality).
Nth(S, i) == CHOOSE k \in S : Cardinality({j \in S : j <= k}) = i

SuccessSeen == ObsIdx("advertise_callback", "onStartSuccess") # {}

(* C1: in every session whose Connect phase passed, exactly one             *)
(* onConnectionStateChange event had been delivered to the client callback  *)
(* queue between bleConnectGatt and the evaluation (the getAll drain and    *)
(* its assertions): the one waitAndGet returned.                            *)
C1_ExactlyOnceConnect ==
  Passed("Connect") =>
    /\ connSeenAtEval = 1
    /\ Cardinality({k \in ObsIdx("client_callback", "onConnectionStateChange") :
                      k > Nth(CmdIdx("bleConnectGatt"), 1)
                      /\ \A j \in TraceIdx : trace[j] = Pass("Connect") => k < j}) = 1

C1_Witness ==
  /\ Passed("Connect")
  /\ connEmitted >= 2
  /\ connSeenAtEval = 1

(* C2: when the initiator's stack emits two (or more) onConnectionStateChange *)
(* events for the one bleConnectGatt, the session never ends in PASS, and     *)
(* whenever the harness takes the second of them from the queue (in the drain *)
(* of Connect or in the wait of Disconnect) the session ends with an          *)
(* assertion failure, wherever the delivery of the second event falls; the    *)
(* wait of Disconnect times out only while that event is still undelivered.   *)
ConnectedTaken ==
  {k \in ObsIdx("client_callback", "onConnectionStateChange") : trace[k].d = "STATE_CONNECTED"}

C2_DuplicateNeverPasses ==
  connEmitted >= 2 =>
    /\ pc # "Closed"
    /\ ~Passed("Disconnect")
    /\ Cardinality(ConnectedTaken) >= 2 =>
         /\ pc = "Failed"
         /\ err.kind = "AssertionError"
         /\ err.at \in {"C_getAll", "X_wait"}
    /\ (pc = "Failed" /\ err.at = "X_wait" /\ err.kind # "AssertionError") =>
         \E k \in 1..Len(chan["client_callback"]) : chan["client_callback"][k] = Connected

C2_Witness ==
  /\ connEmitted >= 2
  /\ Passed("WriteCharacteristic")
  /\ pc = "Failed"
  /\ err = [kind |-> "AssertionError", at |-> "X_wait"]

(* C3: as long as no attempt has observed onStartSuccess, Discover stays in *)
(* its retry loop or has failed; unless a device call was refused, it fails *)
(* there only with TimeoutError and only when exactly max_attempts          *)
(* bleStartAdvertising commands were issued.                                *)
C3_BoundedRetry ==
  ~SuccessSeen =>
    /\ pc \in {"D_adv", "D_scan", "D_poll", "D_after", "Failed"}
    /\ Cardinality(CmdIdx("bleStartAdvertising")) <= max_attempts
    /\ (pc = "Failed" /\ err.kind # "RejectedError") =>
         /\ err = [kind |-> "TimeoutError", at |-> "D_after"]
         /\ Cardinality(CmdIdx("bleStartAdvertising")) = max_attempts
    /\ (pc = "D_after" /\ ~(attempt_num < max_attempts - 1)) =>
         /\ tick = ADVERTISING_START_TIME
         /\ Cardinality(CmdIdx("bleStartAdvertising")) = max_attempts

C3_Witness ==
  /\ ~SuccessSeen
  /\ pc = "Failed"
  /\ err.kind = "TimeoutError"
  /\ Cardinality(CmdIdx("bleStartAdvertising")) = max_attempts

(* C4 (as claimed): once an attempt of Discover has observed onStartSuccess *)
(* no bleStartAdvertising and no bleStartScan is issued any more, and the   *)
(* retry loop raises no TimeoutError.                                       *)
C4_NoReissueAfterSuccess ==
  \A k \in ObsIdx("advertise_callback", "onStartSuccess") :
    \A j \in TraceIdx :
      j > k =>
        /\ ~IsCmd(j, "bleStartAdvertising")
        /\ ~IsCmd(j, "bleStartScan")
        /\ ~(trace[j] = Raised("TimeoutError") /\ err.at = "D_after")

(* C5 (as claimed): every bleStartScan command is issued after an           *)
(* onStartSuccess event has been observed on the advertise callback.        *)
C5_ScanAfterAdvertisingConfirmed ==
  \A j \in CmdIdx("bleStartScan") :
    \E k \in ObsIdx("advertise_callback", "onStartSuccess") : k < j

(* C6: once a phase function has raised, the session is Failed and nothing  *)
(* follows the exception in the log: no command of a later phase, no event  *)
(* taken, and no stop command rolling back what the earlier phases started  *)
(* (the only stop commands logged are those the normal order had reached).  *)
StopCommands == {"bleStopServer", "bleStopScan", "bleStopAdvertising"}

\* The position at which the normal order issues each stop command, and the
\* stop positions the normal order has gone through when it stands at p.
StopAt(n) ==
  IF n = "bleStopServer" THEN "X_stopServer"
  ELSE IF n = "bleStopScan" THEN "T_stopScan"
  ELSE "T_stopAdvertising"

Upto(p) ==
  IF p = "X_stopServer" THEN {"X_stopServer"}
  ELSE IF p = "T_stopScan" THEN {"X_stopServer", "T_stopScan"}
  ELSE IF p = "T_stopAdvertising" THEN {"X_stopServer", "T_stopScan", "T_stopAdvertising"}
  ELSE {}

C6_FailStop ==
  /\ \A k \in TraceIdx : trace[k].k = "raise" => (k = Len(trace) /\ pc = "Failed")
  /\ pc = "Failed" =>
       /\ trace[Len(trace)] = Raised(err.kind)
       /\ \A k \in TraceIdx :
            (trace[k].k = "cmd" /\ trace[k].n \in StopCommands) => StopAt(trace[k].n) \in Upto(err.at)
       /\ Passed("Disconnect") => err.at \in {"T_stopScan", "T_stopAdvertising"}

C6_Witness ==
  /\ pc = "Failed"
  /\ err.at = "C_getAll"
  /\ Passed("Discover")
  /\ chan["server_callback"] # <<>>

(* C7: the commands of the session are issued phase by phase in the order   *)
(* Discover, Connect, DiscoverServices, ReadCharacteristic,                 *)
(* WriteCharacteristic, Disconnect, StopDiscover: a command of a phase is   *)
(* issued only after the previous phase has returned normally, and never    *)
(* after its own phase has returned.                                        *)
Phases == <<"Discover", "Connect", "DiscoverServices", "ReadCharacteristic",
            "WriteCharacteristic", "Disconnect", "StopDiscover">>

PhaseOf(k) ==
  IF trace[k].n \in {"bleStartAdvertising", "bleStartScan"} THEN 1
  ELSE IF trace[k].n \in {"bleStartServer", "bleConnectGatt"} THEN 2
  ELSE IF trace[k].n = "bleDiscoverServices" THEN 3
  ELSE IF trace[k].n = "bleReadOperation" THEN 4
  ELSE IF trace[k].n = "bleWriteOperation" THEN 5
  ELSE IF trace[k].n \in {"bleDisconnect", "bleStopServer"} THEN 6
  ELSE 7

C7_PhaseOrder ==
  \A k \in TraceIdx :
    trace[k].k = "cmd" =>
      /\ PhaseOf(k) > 1 => \E j \in 1..(k - 1) : trace[j] = Pass(Phases[PhaseOf(k) - 1])
      /\ \A j \in 1..(k - 1) : trace[j] # Pass(Phases[PhaseOf(k)])
      /\ \A j \in 1..(k - 1) : trace[j].k = "cmd" => PhaseOf(j) <= PhaseOf(k)

C7_Witness ==
  /\ pc = "Closed"
  /\ \A p \in 1..Len(Phases) : Passed(Phases[p])

(* C8: the i-th write step is complete (its onCharacteristicWrite has been  *)
(* taken from the client queue) only if, after the i-th bleWriteOperation   *)
(* and before that, an onCharacteristicWriteRequest event carrying the      *)
(* i-th write payload was taken from the server queue.                      *)
WriteDone == ObsIdx("client_callback", "onCharacteristicWrite")

C8_WriteCausality ==
  \A i \in 1..Len(WRITE_UUIDS) :
    Cardinality(WriteDone) >= i =>
      \E k \in ObsIdx("server_callback", "onCharacteristicWriteRequest") :
        /\ Nth(CmdIdx("bleWriteOperation"), i) < k
        /\ k < Nth(WriteDone, i)
        /\ trace[k].d = WRITE_DATAS[i]

C8_Witness ==
  /\ Passed("WriteCharacteristic")
  /\ Cardinality(WriteDone) = Len(WRITE_UUIDS)

(* C9: when both events of a write step have reached their queues, in       *)
(* whichever order, the step does not time out: it fails only on the        *)
(* payload of the write request; and the Write phase passes only when both  *)
(* events of each step arrived and were taken, the receiver's with the      *)
(* bytes sent.                                                              *)
BothArrived ==
  /\ \E k \in 1..Len(arrivals) : arrivals[k] = "onCharacteristicWriteRequest"
  /\ \E k \in 1..Len(arrivals) : arrivals[k] = "onCharacteristicWrite"

C9_WriteOrderIndependent ==
  /\ (pc = "Failed" /\ err.at \in {"W_waitServer", "W_waitClient"} /\ BothArrived) =>
       /\ err = [kind |-> "AssertionError", at |-> "W_waitServer"]
       /\ trace[Len(trace) - 1].d # WRITE_DATAS[idx]
  /\ Passed("WriteCharacteristic") =>
       /\ BothArrived
       /\ Cardinality(ObsIdx("client_callback", "onCharacteristicWrite")) = Len(WRITE_UUIDS)
       /\ \A i \in 1..Len(WRITE_UUIDS) :
            trace[Nth(ObsIdx("server_callback", "onCharacteristicWriteRequest"), i)].d = WRITE_DATAS[i]

C9_Witness ==
  /\ Passed("WriteCharacteristic")
  /\ arrivals = <<"onCharacteristicWrite", "onCharacteristicWriteRequest">>

(* C10: every onCharacteristicRead event the harness took either has status *)
(* GATT_SUCCESS and the payload of the read characteristic it was issued    *)
(* for (first, second, third), or it failed the phase with an assertion     *)
(* failure; ReadCharacteristic passes only with three matching events, each *)
(* taken after its own bleReadOperation.                                    *)
ReadTaken == ObsIdx("client_callback", "onCharacteristicRead")

C10_ReadRoundTrip ==
  /\ \A i \in 1..Cardinality(ReadTaken) :
       LET k == Nth(ReadTaken, i) IN
       /\ i <= Len(READ_UUIDS)
       /\ Cardinality(CmdIdx("bleReadOperation")) >= i
       /\ Nth(CmdIdx("bleReadOperation"), i) < k
       /\ \/ trace[k].s = GATT_SUCCESS /\ trace[k].d = READ_DATAS[i]
          \/ /\ pc = "Failed"
             /\ err = [kind |-> "AssertionError", at |-> "R_wait"]
             /\ k = Len(trace) - 1
  /\ Passed("ReadCharacteristic") =>
       /\ Cardinality(ReadTaken) = Len(READ_UUIDS)
       /\ \A i \in 1..Len(READ_UUIDS) :
            trace[Nth(ReadTaken, i)].s = GATT_SUCCESS /\ trace[Nth(ReadTaken, i)].d = READ_DATAS[i]

C10_Witness ==
  /\ Passed("ReadCharacteristic")
  /\ Cardinality(ReadTaken) = Len(READ_UUIDS)

(* C11 (as claimed): Discover passes only by taking a scan result that      *)
(* carries the advertised service entry and the scan-response entry, and it *)
(* does not fail for a missing scan response while a scan result carrying   *)
(* the scan-response entry is on the initiator's scan queue.                *)
ScanResponseQueued ==
  \E k \in 1..Len(queue["scan_callback"]) :
    /\ queue["scan_callback"][k].name = "onScanResult"
    /\ HasScanResponse(queue["scan_callback"][k])

C11_ScanResponseAvailable ==
  [][ /\ (pc = "D_wait" /\ pc' = "C_startServer") =>
           \E k \in 1..Len(queue["scan_callback"]) :
             /\ IsRequiredScanResult(queue["scan_callback"][k])
             /\ HasScanResponse(queue["scan_callback"][k])
      /\ (pc = "D_wait" /\ pc' = "Failed" /\ err'.kind = "AssertionError") =>
           ~ScanResponseQueued ]_vars

(* C12 (as claimed): Discover passes only with a required scan result that  *)
(* reached the scan queue no later than SCAN_TIMEOUT seconds after the end  *)
(* of the retry loop.                                                       *)
C12_ScanWindow ==
  [][ (pc = "D_wait" /\ pc' = "C_startServer") =>
        (scanArrivedAt >= 0 /\ scanArrivedAt <= SCAN_TIMEOUT) ]_vars

(* C13: the drain of DiscoverServices lets the phase pass if and only if    *)
(* exactly one onServiceDiscovered event is on the initiator's queue at     *)
(* that time, its status is GATT_SUCCESS, it lists the test service, and    *)
(* the characteristic UUIDs listed for the test service include the five    *)
(* fixture UUIDs; with zero events or with two or more the phase fails.     *)
DiscoveredQueued == GetAll(queue["client_callback"], "onServiceDiscovered")

TestServicesOf(e) == {service \in e.services : service.UUID = TEST_BLE_SERVICE_UUID}

C14_AssertionOnlyOnArrivedEvent ==
  err.kind = "AssertionError" => trace[Len(trace) - 1].k = "obs"

(* C15: every suspension of the harness carries an explicit finite timeout. *)
(* SuspensionPoints are the positions where the harness sleeps, polls or    *)
(* waits; TimeoutArgs(p) is the tuple of timeout arguments written at the   *)
(* call of position p (empty when the call passes none).                    *)
SuspensionPoints ==
  {"D_poll", "D_sleep", "D_wait", "C_waitAdded", "C_waitConn", "C_waitServer",
   "S_getAll", "R_wait", "W_waitServer", "W_waitClient", "X_wait"}

TimeoutArgs(p) ==
  IF p = "D_poll" THEN <<ADVERTISING_START_TIME>>
  ELSE IF p \in {"D_sleep", "D_wait"} THEN <<SCAN_TIMEOUT>>
  ELSE IF p \in {"C_waitConn", "S_getAll"} THEN <<CONNECTION_TIMEOUT>>
  ELSE IF p \in {"C_waitAdded", "R_wait", "W_waitServer", "W_waitClient", "X_wait"} THEN <<30>>
  ELSE <<>>

C15_ExplicitTimeouts ==
  pc \in SuspensionPoints =>
    /\ Len(TimeoutArgs(pc)) = 1
    /\ TimeoutArgs(pc)[1] \in Nat

(* C16: every bleStopServer follows bleDisconnect and comes right after the *)
(* initiator's onConnectionStateChange was taken and found GATT_SUCCESS /   *)
(* STATE_DISCONNECTED, with no event of the receiver taken in between; a    *)
(* Disconnect that fails (event missing or wrong) issues no bleStopServer.  *)
C16_StopServerAfterDisconnected ==
  /\ \A k \in CmdIdx("bleStopServer") :
       /\ k > 1
       /\ trace[k - 1] = Obs("client_callback", Disconnected)
       /\ \E j \in CmdIdx("bleDisconnect") :
            /\ j < k
            /\ \A m \in (j + 1)..(k - 1) : trace[m].h # "server_callback"
  /\ (pc = "Failed" /\ err.at \in {"X_disconnect", "X_wait"}) =>
       CmdIdx("bleStopServer") = {}

C16_Witness ==
  /\ CmdIdx("bleStopServer") # {}
  /\ chan["server_callback"] = <<>>
  /\ queue["server_callback"] = <<>>

(* C17: bleConnectGatt is issued only from the position Connect reaches by  *)
(* taking an onServiceAdded event of the receiver whose status is           *)
(* GATT_SUCCESS and whose characteristic UUIDs include every fixture UUID;  *)
(* such an event is accepted whatever else it lists, and an event with a    *)
(* missing fixture UUID is rejected whatever its length.                    *)
AddedQueued == FirstNamed(queue["server_callback"], "onServiceAdded")

AddedUUIDs == UNION {s.Characteristics : s \in AddedQueued.services}

C17_ConnectAfterServiceAdded ==
  [][ /\ (Len(trace') > Len(trace) /\ trace'[Len(trace) + 1] = Cmd("bleConnectGatt")) =>
           pc = "C_connect"
      /\ (pc' = "C_connect" /\ pc # "C_connect") =>
           /\ pc = "C_waitAdded"
           /\ Has(queue["server_callback"], "onServiceAdded")
           /\ AddedQueued.status = GATT_SUCCESS
           /\ ServiceUUIDs \subseteq AddedUUIDs
           /\ trace'[Len(trace')] = Obs("server_callback", AddedQueued)
      /\ ( /\ pc = "C_waitAdded" /\ pc' # pc
           /\ Has(queue["server_callback"], "onServiceAdded")
           /\ AddedQueued.status = GATT_SUCCESS
           /\ ServiceUUIDs \subseteq AddedUUIDs ) => pc' = "C_connect" ]_vars

C17_Witness ==
  /\ CmdIdx("bleConnectGatt") # {}
  /\ trace[Len(trace)] = Cmd("bleConnectGatt")
  /\ trace[Len(trace) - 1].n = "onServiceAdded"

(* C18: Connect returns normally only right after it took the receiver's    *)
(* own onConnectionStateChange from the receiver's queue and found it       *)
(* GATT_SUCCESS / STATE_CONNECTED; the initiator's verified event comes     *)
(* earlier and does not by itself end the phase.                            *)
ConnectPassIdx == {k \in TraceIdx : trace[k] = Pass("Connect")}

C18_ServerObservesConnected ==
  \A k \in ConnectPassIdx :
    /\ k > 2
    /\ trace[k - 1] = Obs("server_callback", Connected)
    /\ \E j \in ObsIdx("client_callback", "onConnectionStateChange") :
         /\ j < k - 1
         /\ trace[j] = Obs("client_callback", Connected)

C18_Witness ==
  /\ pc = "S_discover"
  /\ ConnectPassIdx # {}

(* C19: a device call that raises ends the session at once: the exception   *)
(* is the last entry of the log, right after the refused command, the       *)
(* session is Failed at the position of that command, and no command is     *)
(* issued after it (the retry loop of Discover does not go on).             *)
RejectedIdx == {k \in TraceIdx : trace[k] = Raised("RejectedError")}

C19_RejectionFatal ==
  /\ \A k \in RejectedIdx :
       /\ k = Len(trace)
       /\ k > 1
       /\ IsCmd(k - 1, CommandAt(err.at))
       /\ pc = "Failed"
       /\ err.kind = "RejectedError"
  /\ err.kind = "RejectedError" => RejectedIdx # {}

C19_Witness ==
  /\ err.kind = "RejectedError"
  /\ err.at \in {"D_adv", "D_scan"}
  /\ attempt_num < max_attempts - 1
  /\ Cardinality(CmdIdx(CommandAt(err.at))) = 1

(* C20: the only commands issued more than once in a session are the start  *)
(* commands inside the retry loop of Discover, at most once per attempt;    *)
(* every other command (a read or a write counted per characteristic) is    *)
(* issued at most once, and no command follows an assertion failure.        *)
RetriedCommands == {"bleStartAdvertising", "bleStartScan"}

CmdEntries == {k \in TraceIdx : trace[k].k = "cmd"}

MaxCap == 2
MaxPush == 4

\* A line is a sequence of characters; these are the lines log_to_queue is
\* called with.
Whitespace == {" ", "\n"}

Lines ==
  { <<"a">>, <<" ", "a">>, <<"b", "\n">>, <<" ">>, <<" ", "a", " ", "b", "\n">> }

RECURSIVE LStrip(_)
LStrip(line) ==
  IF line = <<>> THEN line
  ELSE IF Head(line) \in Whitespace THEN LStrip(Tail(line))
  ELSE line

RECURSIVE RStrip(_)
RStrip(line) ==
  IF line = <<>> THEN line
  ELSE IF line[Len(line)] \in Whitespace THEN RStrip(SubSeq(line, 1, Len(line) - 1))
  ELSE line

\* str.strip(): the line without its leading and trailing whitespace.
Strip(line) == RStrip(LStrip(line))

\* queue.Queue.full(): a queue made with maxsize 0 is unbounded, never full.
Full == maxsize > 0 /\ Len(logq) >= maxsize

\* log_to_queue keeping the queued items and refusing the new one when full.
LogToQueueDropNewest(line) ==
  /\ Len(lines) < MaxPush
  /\ logq' = IF Full THEN logq ELSE Append(logq, Strip(line))
  /\ lines' = Append(lines, line)
  /\ UNCHANGED maxsize
  /\ UNCHANGED <<harnessVars, scanVars, buildVars, runVars>>

\* utils.py lines 175-182: q.get() takes the oldest item out of a full
\* queue, then the stripped line is put at the end.
LogToQueue(line) ==
  /\ Len(lines) < MaxPush
  /\ LET after_get == IF Full THEN Tail(logq) ELSE logq
     IN logq' = Append(after_get, Strip(line))
  /\ lines' = Append(lines, line)
  /\ UNCHANGED maxsize
  /\ UNCHANGED <<harnessVars, scanVars, buildVars, runVars>>

\* An empty queue of any capacity (0: unbounded).
InitQueue ==
  /\ HarnessInit
  /\ RunIdle
  /\ logq = <<>>
  /\ maxsize \in 0..MaxCap
  /\ lines = <<>>
  /\ ScanIdle
  /\ BuildIdle

NextQueue == \E line \in Lines : LogToQueue(line)

SpecQueue == InitQueue /\ [][NextQueue]_vars

(* C21: after n calls of log_to_queue on a queue of capacity C the queue    *)
(* holds the last min(n, C) items put (the stripped lines) in the order of  *)
(* the calls, the newest last; an unbounded queue (maxsize 0) holds all n.  *)
(* Every call puts its item: none is refused.                               *)
Kept == IF maxsize = 0 \/ Len(lines) < maxsize THEN Len(lines) ELSE maxsize

C21_DropOldest ==
  /\ Len(logq) = Kept
  /\ \A i \in 1..Kept : logq[i] = Strip(lines[Len(lines) - Kept + i])
  /\ lines # <<>> => logq[Len(logq)] = Strip(lines[Len(lines)])

C21_Witness ==
  /\ maxsize = MaxCap
  /\ Len(lines) = maxsize + 1
  /\ Len(logq) = maxsize
  /\ logq[1] # Strip(lines[1])
  /\ lines[1] # Strip(lines[1])

(* ----------------- testing/mobly/ble_utils.py: StartScanning ---------- *)

\* The local max_attempts of StartScanning.
scan_max_attempts == 3

\* The values scan_duration is called with: two, one and no drain per attempt.
ScanDurations == {10, 20, 30}

\* range(int(SCAN_TIMEOUT / scan_duration)): the drains of one attempt.
Polls == SCAN_TIMEOUT \div scan_duration

ScanFailed == Event("onScanFailed", "", "", "", NoServices)
Scanned(payload) == Event("onScanResult", "", "", payload, NoServices)

\* What the scanner's stack emits for one bleStartScan.
ScanningReplies ==
  { <<>>,
    <<ScanFailed>>,
    <<Scanned("r1")>>,
    <<Scanned("r1"), Scanned("r2")>> }

\* line 250: a fresh scan callback handle replaces the previous one.
SS_StartScan ==
  /\ pc = "SS_scan"
  /\ \E reply \in ScanningReplies :
       /\ chan' = [chan EXCEPT !["scan_callback"] = reply]
       /\ queue' = [queue EXCEPT !["scan_callback"] = <<>>]
  /\ Goto("SS_failure", <<Cmd("bleStartScan")>>)
  /\ UNCHANGED <<connEmitted, attempt_num, tick, success, idx, held, connDelivered, connSeenAtEval, arrivals, scanArrivedAt>>
  /\ UNCHANGED scriptVars

\* lines 252-256: the onScanFailed events are drained once, right after the
\* command; if there is any, continue takes the next value of
\* range(max_attempts), or leaves the loop when the range is exhausted.
SS_GetFailure ==
  /\ pc = "SS_failure"
  /\ LET failure == GetAll(queue["scan_callback"], "onScanFailed") IN
     /\ queue' = [queue EXCEPT !["scan_callback"] = Drained(@, "onScanFailed")]
     /\ IF failure # <<>>
        THEN /\ attempt_num' = IF attempt_num + 1 < scan_max_attempts
                               THEN attempt_num + 1 ELSE attempt_num
             /\ Goto(IF attempt_num + 1 < scan_max_attempts THEN "SS_scan" ELSE "SS_result",
                     [k \in 1..Len(failure) |-> Obs("scan_callback", failure[k])])
             /\ UNCHANGED <<success, tick>>
        ELSE /\ success' = FALSE
             /\ tick' = 0
             /\ Goto(IF Polls > 0 THEN "SS_poll" ELSE "SS_after", <<>>)
             /\ UNCHANGED attempt_num
  /\ UNCHANGED <<connEmitted, idx, held, chan, connDelivered, connSeenAtEval, arrivals, scanArrivedAt>>
  /\ UNCHANGED scriptVars

\* lines 257-262: sleep scan_duration, then drain the onScanResult events;
\* break on the first non-empty drain.
SS_Poll ==
  /\ pc = "SS_poll"
  /\ tick < Polls
  /\ LET scan_result == GetAll(queue["scan_callback"], "onScanResult") IN
     /\ queue' = [queue EXCEPT !["scan_callback"] = Drained(@, "onScanResult")]
     /\ held' = scan_result
     /\ success' = (scan_result # <<>>)
     /\ tick' = tick + 1
     /\ Goto(IF scan_result # <<>> \/ tick + 1 = Polls THEN "SS_after" ELSE "SS_poll",
             [k \in 1..Len(scan_result) |-> Obs("scan_callback", scan_result[k])])
  /\ UNCHANGED <<connEmitted, attempt_num, idx, chan, connDelivered, connSeenAtEval, arrivals, scanArrivedAt>>
  /\ UNCHANGED scriptVars

\* StartScanning without the break of lines 268-269.
SS_AfterNoBreak ==
  /\ pc = "SS_after"
  /\ IF attempt_num < scan_max_attempts - 1
     THEN /\ attempt_num' = attempt_num + 1
          /\ Goto("SS_scan", <<>>)
     ELSE /\ UNCHANGED attempt_num
          /\ IF success THEN Goto("SS_result", <<>>) ELSE Raise("TimeoutError", <<>>)
  /\ UNCHANGED <<connEmitted, tick, success, idx, held, queue, chan, connDelivered, connSeenAtEval, arrivals, scanArrivedAt>>
  /\ UNCHANGED scriptVars

\* lines 263-281: leave the retry loop on success; otherwise warn and take
\* the next attempt, or raise after the last one.
SS_After ==
  /\ pc = "SS_after"
  /\ IF success
     THEN /\ Goto("SS_result", <<>>)
          /\ UNCHANGED attempt_num
     ELSE IF attempt_num < scan_max_attempts - 1
     THEN /\ attempt_num' = attempt_num + 1
          /\ Goto("SS_scan", <<>>)
     ELSE /\ Raise("TimeoutError", <<>>)
          /\ UNCHANGED attempt_num
  /\ UNCHANGED <<connEmitted, tick, success, idx, held, queue, chan, connDelivered, connSeenAtEval, arrivals, scanArrivedAt>>
  /\ UNCHANGED scriptVars

\* lines 283-290: the payloads of the last drain are returned if there is any.
SS_Result ==
  /\ pc = "SS_result"
  /\ IF held # <<>>
     THEN /\ result' = [k \in 1..Len(held) |-> held[k].data]
          /\ Goto("Returned", <<Pass("StartScanning")>>)
     ELSE /\ UNCHANGED result
          /\ Raise("AssertionError", <<>>)
  /\ UNCHANGED <<connEmitted, attempt_num, tick, success, idx, held, queue, chan, connDelivered, connSeenAtEval, arrivals, scanArrivedAt>>
  /\ UNCHANGED <<queueVars, scan_duration, buildVars, runVars>>

\* StartScanning is called with some scan_duration.
InitScan ==
  /\ HarnessAt("SS_scan")
  /\ RunIdle
  /\ QueueIdle
  /\ scan_duration \in ScanDurations
  /\ result = <<>>
  /\ BuildIdle

NextScan ==
  \/ Deliver("scan_callback")
  \/ CommandRejected
  \/ SS_StartScan
  \/ SS_GetFailure
  \/ SS_Poll
  \/ SS_After
  \/ SS_Result

SpecScan == InitScan /\ [][NextScan]_vars

(* C22: when StartScanning ends without any attempt having drained an       *)
(* onScanResult event, it ends with TimeoutError (never with an assertion   *)
(* failure), whether the attempts ended by an elapsed window or by an       *)
(* onScanFailed event; and at most 3 bleStartScan commands are issued.      *)
ScanResultSeen == ObsIdx("scan_callback", "onScanResult") # {}

C22_TimeoutWhenNoScanResult ==
  /\ Cardinality(CmdIdx("bleStartScan")) <= scan_max_attempts
  /\ (pc \in {"Returned", "Failed"} /\ ~ScanResultSeen /\ err.kind # "RejectedError") =>
       err.kind = "TimeoutError"

(* C23: a poll of Discover's retry attempt that finds an onStartFailure     *)
(* event on the advertise queue ends the polling of that attempt: the       *)
(* harness does not go on polling for onStartSuccess.                       *)
C23_FailureEndsAttempt ==
  [][ ( /\ pc = "D_poll"
        /\ <<pc, tick>>' # <<pc, tick>>
        /\ Has(queue["advertise_callback"], "onStartFailure") ) =>
      pc' = "D_after" ]_vars

(* ------------- scripts/tasks/run_pytest_task.py: RunPytestManager ----- *)

EMULATOR_ARTIFACT_PATH == <<"emulator_artifact">>
OBJS_DIR == <<"tools", "netsim", "objs">>

Systems == {"Linux", "Darwin", "Windows"}
Machines == {"x86_64", "arm64"}
Hosts == [system : Systems, machine : Machines]

\* lines 68-75: self.dir as __init__ leaves it.
PytestDir ==
  IF args.pytest_input_dir # "" THEN <<"tools", "netsim", args.pytest_input_dir>>
  ELSE IF args.buildbot THEN Append(EMULATOR_ARTIFACT_PATH, "emulator")
  ELSE OBJS_DIR

\* line 99
emulator_bin == Append(PytestDir, "emulator")

\* lines 107-120: the command line of the e2e tests.
PytestCmd ==
  [script |-> IF host.system = "Windows" THEN "run_tests.cmd" ELSE "run_tests.sh",
   emulator |-> emulator_bin,
   failures_as_errors |-> host.system # "Windows"]

\* The external command was run and ended well (ok) or not.
Ran(cmd, ok) == [op |-> "run", cmd |-> cmd, ok |-> ok, n |-> 0]
LoggedError(n) == [op |-> "log_error", cmd |-> PytestCmd, ok |-> FALSE, n |-> n]

\* The directories an emulator may have been installed in, each absent,
\* present without the emulator binary, or present with it.
PytestDirs ==
  {OBJS_DIR, Append(EMULATOR_ARTIFACT_PATH, "emulator"), <<"tools", "netsim", "in">>}

PytestFiles ==
  {paths \in SUBSET (PytestDirs \cup {Append(d, "emulator") : d \in PytestDirs}) :
     \A d \in PytestDirs : Append(d, "emulator") \in paths => d \in paths}

\* lines 100-106 and 121: which way the command will be run.
P_Check ==
  /\ spos = "P_check"
  /\ IF ~(PytestDir \in fs /\ emulator_bin \in fs)
     THEN /\ retval' = "False"
          /\ spos' = "returned"
     ELSE /\ retval' = retval
          /\ spos' = IF host.system = "Darwin" /\ host.machine = "arm64"
                     THEN "P_attempts" ELSE "P_once"
  /\ UNCHANGED <<host, args, fs, attempt, effects, exc, tasks>>
  /\ UNCHANGED <<harnessVars, queueVars, scanVars, runVars>>

\* _run_with_n_attempts iterating over range(1, n).
P_AttemptsOffByOne(n) ==
  /\ spos = "P_attempts"
  /\ \E ok \in BOOLEAN :
       IF ok
       THEN /\ effects' = Append(effects, Ran(PytestCmd, TRUE))
            /\ retval' = "True"
            /\ spos' = "returned"
            /\ UNCHANGED <<attempt, exc>>
       ELSE IF attempt = n - 1
       THEN /\ effects' = Append(effects, Ran(PytestCmd, FALSE)) \o <<LoggedError(attempt)>>
            /\ retval' = "True"
            /\ spos' = "returned"
            /\ UNCHANGED <<attempt, exc>>
       ELSE /\ effects' = Append(effects, Ran(PytestCmd, FALSE)) \o <<LoggedError(attempt)>>
            /\ attempt' = attempt + 1
            /\ UNCHANGED <<spos, retval, exc>>
  /\ UNCHANGED <<host, args, fs, tasks>>
  /\ UNCHANGED <<harnessVars, queueVars, scanVars, runVars>>

\* lines 79-88 and 122-123: one iteration of _run_with_n_attempts(cmd, n);
\* process returns True when it returns.
P_Attempts(n) ==
  /\ spos = "P_attempts"
  /\ \E ok \in BOOLEAN :
       IF ok
       THEN /\ effects' = Append(effects, Ran(PytestCmd, TRUE))
            /\ retval' = "True"
            /\ spos' = "returned"
            /\ UNCHANGED <<attempt, exc>>
       ELSE IF attempt = n
       THEN /\ effects' = Append(effects, Ran(PytestCmd, FALSE))
            /\ exc' = [kind |-> "Exception", attempt |-> attempt]
            /\ spos' = "raised"
            /\ UNCHANGED <<attempt, retval>>
       ELSE /\ effects' = Append(effects, Ran(PytestCmd, FALSE)) \o <<LoggedError(attempt)>>
            /\ attempt' = attempt + 1
            /\ UNCHANGED <<spos, retval, exc>>
  /\ UNCHANGED <<host, args, fs, tasks>>
  /\ UNCHANGED <<harnessVars, queueVars, scanVars, runVars>>

\* lines 121-123: the command is run once; run raises if it fails.
P_Once ==
  /\ spos = "P_once"
  /\ \E ok \in BOOLEAN :
       /\ effects' = Append(effects, Ran(PytestCmd, ok))
       /\ IF ok
          THEN /\ retval' = "True"
               /\ spos' = "returned"
               /\ UNCHANGED exc
          ELSE /\ exc' = [kind |-> "Exception", attempt |-> 1]
               /\ spos' = "raised"
               /\ UNCHANGED retval
  /\ UNCHANGED <<host, args, fs, attempt, tasks>>
  /\ UNCHANGED <<harnessVars, queueVars, scanVars, runVars>>

\* RunPytestManager(buildbot, pytest_input_dir).process() on some host with
\* some directories present.
InitPytest ==
  /\ HarnessInit
  /\ RunIdle
  /\ QueueIdle
  /\ ScanIdle
  /\ host \in Hosts
  /\ args \in {[DefaultArgs EXCEPT !.buildbot = b, !.pytest_input_dir = d] :
                 b \in BOOLEAN, d \in {"", "in"}}
  /\ fs \in PytestFiles
  /\ spos = "P_check"
  /\ attempt = 1
  /\ effects = <<>>
  /\ retval = "none"
  /\ exc = "none"
  /\ tasks = <<>>

NextPytest ==
  \/ P_Check
  \/ P_Attempts(3)
  \/ P_Once

SpecPytest == InitPytest /\ [][NextPytest]_vars

(* --------- scripts/build_tools.py: main, tasks/__init__.py, task.py --- *)

\* Bound: the number of names given with --task.
MaxTaskArgs == 2

\* tasks/__init__.py lines 28-35, in lower case as argparse passes them.
TASK_LIST == {"configure", "compile", "compileinstall", "installemulator", "runpytest", "localrunall"}

\* task.py lines 23-25: a Task as its constructor leaves it.
NewTask(name) == [name |-> name, enabled |-> FALSE, do_runs |-> 0]

\* task.py lines 27-28
enable(t, b) == [t EXCEPT !.enabled = b]

\* tasks/__init__.py lines 49-56: the mapping of tasks.
TaskNames == {"Configure", "Compile", "CompileInstall", "ZipArtifact", "InstallEmulator", "RunPyTest"}

Constructed == [name \in TaskNames |-> NewTask(name)]

EnableAll(ts, names) == [name \in DOMAIN ts |-> IF name \in names THEN enable(ts[name], TRUE) ELSE ts[name]]

\* lines 72-98: the tasks one name of args.task enables.
Named(args_task_name) ==
  IF args_task_name = "localrunall" THEN {"Configure", "Compile", "InstallEmulator", "RunPyTest"}
  ELSE IF args_task_name = "configure" THEN {"Configure"}
  ELSE IF args_task_name = "compile" THEN {"Compile"}
  ELSE IF args_task_name = "compileinstall" THEN {"CompileInstall"}
  ELSE IF args_task_name = "zipartifact" THEN {"ZipArtifact"}
  ELSE IF args_task_name = "installemulator" THEN {"InstallEmulator"}
  ELSE IF args_task_name = "fullbuild" THEN {"Configure", "Compile", "InstallEmulator"}
  ELSE IF args_task_name = "runpytest" THEN {"RunPyTest"}
  ELSE {}

\* lines 70-98: the loop over args.task, left by break after localrunall.
RECURSIVE EnableNamed(_, _)
EnableNamed(ts, names) ==
  IF names = <<>> THEN ts
  ELSE IF Head(names) = "localrunall" THEN EnableAll(ts, Named(Head(names)))
  ELSE EnableNamed(EnableAll(ts, Named(Head(names))), Tail(names))

BuildbotTasks == {"Configure", "CompileInstall", "ZipArtifact", "InstallEmulator", "RunPyTest"}

\* get_tasks enabling the buildbot tasks and then going on with args.task.
get_tasksNoReturn(ts, a) ==
  LET bot == IF a.buildbot THEN EnableAll(ts, BuildbotTasks) ELSE ts IN
  IF a.task # <<>> THEN EnableNamed(bot, a.task)
  ELSE EnableAll(bot, {"Configure"})

\* tasks/__init__.py lines 58-104, on the mapping ts just constructed.
get_tasks(ts, a) ==
  IF a.buildbot THEN EnableAll(ts, BuildbotTasks)
  ELSE IF a.task # <<>> THEN EnableNamed(ts, a.task)
  ELSE EnableAll(ts, {"Configure"})

\* build_tools.py lines 166-184: the names main looks up, in this order.
MainOrder == <<"Configure", "Compile", "CompileInstall", "RunTest", "ZipArtifact", "InstallEmulator", "RunPyTest">>

Called(name) == [op |-> "Task.run", name |-> name]
DoRun(name) == [op |-> "do_run", name |-> name]
\* task.py line 35: the log entry of a do_run that returned a true value.
Completed(name) == [op |-> "completed", name |-> name]

\* Position of name in MainOrder.
OrderIdx(name) == CHOOSE i \in 1..Len(MainOrder) : MainOrder[i] = name

AfterTask(name) ==
  IF OrderIdx(name) < Len(MainOrder) THEN MainOrder[OrderIdx(name) + 1] ELSE "returned"

\* tasks/__init__.py lines 49-56: the six Task objects are made.
M_Construct ==
  /\ spos = "construct"
  /\ tasks' = Constructed
  /\ spos' = "get_tasks"
  /\ UNCHANGED <<host, args, fs, attempt, effects, retval, exc>>
  /\ UNCHANGED <<harnessVars, queueVars, scanVars, runVars>>

\* tasks/__init__.py lines 58-104
M_GetTasks ==
  /\ spos = "get_tasks"
  /\ tasks' = get_tasks(tasks, args)
  /\ spos' = MainOrder[1]
  /\ UNCHANGED <<host, args, fs, attempt, effects, retval, exc>>
  /\ UNCHANGED <<harnessVars, queueVars, scanVars, runVars>>

\* Task.run calling do_run whatever the enabled flag.
M_RunTaskAlways ==
  /\ spos \in DOMAIN tasks
  /\ \E outcome \in {"True", "None", "raise"} :
       /\ tasks' = [tasks EXCEPT ![spos].do_runs = @ + 1]
       /\ effects' = effects \o <<Called(spos), DoRun(spos)>>
                       \o (IF outcome = "True" THEN <<Completed(spos)>> ELSE <<>>)
       /\ IF outcome = "raise"
          THEN /\ exc' = [kind |-> "Exception", at |-> spos]
               /\ spos' = "raised"
          ELSE /\ spos' = AfterTask(spos)
               /\ UNCHANGED exc
  /\ UNCHANGED <<host, args, fs, attempt, retval>>
  /\ UNCHANGED <<harnessVars, queueVars, scanVars, runVars>>

\* build_tools.py lines 166-184 with task.py lines 30-37: tasks.get(name).run()
\* for a name of the mapping; do_run returns True, returns None or raises.
M_RunTask ==
  /\ spos \in DOMAIN tasks
  /\ IF tasks[spos].enabled
     THEN \E outcome \in {"True", "None", "raise"} :
            /\ tasks' = [tasks EXCEPT ![spos].do_runs = @ + 1]
            /\ effects' = effects \o <<Called(spos), DoRun(spos)>>
                            \o (IF outcome = "True" THEN <<Completed(spos)>> ELSE <<>>)
            /\ IF outcome = "raise"
               THEN /\ exc' = [kind |-> "Exception", at |-> spos]
                    /\ spos' = "raised"
               ELSE /\ spos' = AfterTask(spos)
                    /\ UNCHANGED exc
     ELSE /\ effects' = Append(effects, Called(spos))
          /\ spos' = AfterTask(spos)
          /\ UNCHANGED <<tasks, exc>>
  /\ UNCHANGED <<host, args, fs, attempt, retval>>
  /\ UNCHANGED <<harnessVars, queueVars, scanVars, runVars>>

\* build_tools.py lines 166-184: tasks.get(name) for a name that is not in
\* the mapping is None, and None has no run.
M_RunMissing ==
  /\ spos \in {MainOrder[i] : i \in 1..Len(MainOrder)}
  /\ tasks # <<>>
  /\ spos \notin DOMAIN tasks
  /\ exc' = [kind |-> "AttributeError", at |-> spos]
  /\ spos' = "raised"
  /\ UNCHANGED <<host, args, fs, attempt, effects, retval, tasks>>
  /\ UNCHANGED <<harnessVars, queueVars, scanVars, runVars>>

\* The command lines argparse accepts for --buildbot and --task.
RECURSIVE SeqsUpTo(_, _)
SeqsUpTo(S, n) ==
  IF n = 0 THEN {<<>>}
  ELSE SeqsUpTo(S, n - 1) \cup {Append(sq, x) : sq \in {t \in SeqsUpTo(S, n - 1) : Len(t) = n - 1}, x \in S}

InitTasks ==
  /\ HarnessInit
  /\ RunIdle
  /\ QueueIdle
  /\ ScanIdle
  /\ host = [system |-> "Linux", machine |-> "x86_64"]
  /\ args \in {[DefaultArgs EXCEPT !.buildbot = b, !.task = t] :
                 b \in BOOLEAN, t \in SeqsUpTo(TASK_LIST, MaxTaskArgs)}
  /\ fs = {}
  /\ spos = "construct"
  /\ attempt = 1
  /\ effects = <<>>
  /\ retval = "none"
  /\ exc = "none"
  /\ tasks = <<>>

NextTasks ==
  \/ M_Construct
  \/ M_GetTasks
  \/ M_RunTask
  \/ M_RunMissing

SpecTasks == InitTasks /\ [][NextTasks]_vars

(* ------- scripts/tasks/install_emulator_task.py: InstallEmulatorManager -- *)

None == "None"

\* lines 85-98: the os substring of the emulator artifact.  A Darwin host of
\* another machine leaves the if statement without a return.
os_name_fetch ==
  IF host.system = "Linux" /\ host.machine = "x86_64" THEN "linux"
  ELSE IF host.system = "Darwin"
  THEN IF host.machine = "x86_64" THEN "darwin"
       ELSE IF host.machine = "arm64" THEN "darwin_aarch64"
       ELSE None
  ELSE IF host.system = "Windows" THEN "windows"
  ELSE None

\* self.out_dir and self.local_emulator_dir as paths.
OutDir == <<args.out_dir>>
LocalEmulatorDir == <<args.local_emulator_dir>>

\* lines 120-121: OBJS_DIR / binary_extension(name)
ObjsBin(name) == Append(OBJS_DIR, name)

\* lines 100-128
prerequisites ==
  IF args.buildbot
  THEN args.out_dir # "" /\ OutDir \in fs
  ELSE /\ host.system = "Linux"
       /\ OBJS_DIR \in fs /\ ObjsBin("netsim") \in fs /\ ObjsBin("netsimd") \in fs

\* lines 136-138 and 233: a file of EMULATOR_ARTIFACT_PATH whose name matches
\* sdk-repo-<os>-emulator-<digits>.zip
ZipName(os) ==
  CASE os = "linux" -> "sdk-repo-linux-emulator-1.zip"
    [] os = "darwin" -> "sdk-repo-darwin-emulator-1.zip"
    [] os = "darwin_aarch64" -> "sdk-repo-darwin_aarch64-emulator-1.zip"
    [] os = "windows" -> "sdk-repo-windows-emulator-1.zip"

Zip(os) == Append(EMULATOR_ARTIFACT_PATH, ZipName(os))

\* lines 220 and 245: the directory __copy_artifacts works on.
emulator_filepath ==
  IF args.local_emulator_dir # "" THEN LocalEmulatorDir
  ELSE Append(EMULATOR_ARTIFACT_PATH, "emulator")

\* A change process made, or tried to make, to the file system.
Did(op, path) == [op |-> op, path |-> path]

IsUnder(path, dir) == Len(path) >= Len(dir) /\ SubSeq(path, 1, Len(dir)) = dir

\* shutil.rmtree(dir, ignore_errors=True)
RmTree(paths, dir) == {path \in paths : ~IsUnder(path, dir)}

\* lines 210-212
I_OsName ==
  /\ spos = "I_os"
  /\ IF os_name_fetch = None
     THEN retval' = "False" /\ spos' = "returned"
     ELSE retval' = retval /\ spos' = "I_prerequisites"
  /\ UNCHANGED <<host, args, fs, attempt, effects, exc, tasks>>
  /\ UNCHANGED <<harnessVars, queueVars, scanVars, runVars>>

\* lines 215-223: the prerequisite checks, then the way to the artifacts.
I_Prerequisites ==
  /\ spos = "I_prerequisites"
  /\ IF ~prerequisites
     THEN retval' = "False" /\ spos' = "returned"
     ELSE /\ retval' = retval
          /\ spos' = IF args.local_emulator_dir # "" THEN "I_copy"
                     ELSE IF ~args.buildbot THEN "I_fetch"
                     ELSE "I_unzip"
  /\ UNCHANGED <<host, args, fs, attempt, effects, exc, tasks>>
  /\ UNCHANGED <<harnessVars, queueVars, scanVars, runVars>>

\* lines 225-238: fetch_artifact for the local case; run raises if it fails,
\* and a run that ends well has left an artifact of the name looked for, or
\* has not.
I_Fetch ==
  /\ spos = "I_fetch"
  /\ effects' = Append(effects, Did("fetch", EMULATOR_ARTIFACT_PATH))
  /\ \E ok \in BOOLEAN, fetched \in SUBSET {Zip("linux")} :
       IF ok
       THEN /\ fs' = fs \cup fetched
            /\ spos' = "I_unzip"
            /\ UNCHANGED exc
       ELSE /\ exc' = [kind |-> "Exception", at |-> spos]
            /\ spos' = "raised"
            /\ UNCHANGED fs
  /\ UNCHANGED <<host, args, attempt, retval, tasks>>
  /\ UNCHANGED <<harnessVars, queueVars, scanVars, runVars>>

\* __unzip_emulator_artifacts removing EMULATOR_ARTIFACT_PATH when it finds
\* no artifact in the local case.
I_UnzipCleansUp ==
  /\ spos = "I_unzip"
  /\ IF Zip(os_name_fetch) \in fs
     THEN /\ fs' = (fs \ {Zip(os_name_fetch)}) \cup {Append(EMULATOR_ARTIFACT_PATH, "emulator")}
          /\ effects' = Append(effects, Did("unzip", Zip(os_name_fetch)))
          /\ spos' = "I_copy"
          /\ UNCHANGED retval
     ELSE /\ retval' = "False"
          /\ spos' = "returned"
          /\ IF ~args.buildbot
             THEN /\ fs' = RmTree(fs, EMULATOR_ARTIFACT_PATH)
                  /\ effects' = Append(effects, Did("rmtree", EMULATOR_ARTIFACT_PATH))
             ELSE UNCHANGED <<fs, effects>>
  /\ UNCHANGED <<host, args, attempt, exc, tasks>>
  /\ UNCHANGED <<harnessVars, queueVars, scanVars, runVars>>

\* lines 130-162 and 241-242: the artifact is unzipped and the zip file
\* removed; without an artifact process returns False.
I_Unzip ==
  /\ spos = "I_unzip"
  /\ IF Zip(os_name_fetch) \in fs
     THEN /\ fs' = (fs \ {Zip(os_name_fetch)}) \cup {Append(EMULATOR_ARTIFACT_PATH, "emulator")}
          /\ effects' = Append(effects, Did("unzip", Zip(os_name_fetch)))
          /\ spos' = "I_copy"
          /\ UNCHANGED retval
     ELSE /\ retval' = "False"
          /\ spos' = "returned"
          /\ UNCHANGED <<fs, effects>>
  /\ UNCHANGED <<host, args, attempt, exc, tasks>>
  /\ UNCHANGED <<harnessVars, queueVars, scanVars, runVars>>

\* lines 164-201: the downloaded netsim artifacts are removed, then copytree
\* to emulator_filepath (buildbot) or from it into OBJS_DIR; copytree raises
\* when its source directory does not exist.  All paths are absolute.
I_Copy ==
  /\ spos = "I_copy"
  /\ LET source == IF args.buildbot THEN OutDir \o <<"distribution", "emulator">>
                   ELSE emulator_filepath
         removed == {path \in fs : Len(path) = Len(emulator_filepath) + 1
                                     /\ IsUnder(path, emulator_filepath)
                                     /\ path[Len(path)] \in {"netsim", "netsimd"}}
         cleaned == fs \ UNION {{path \in fs : IsUnder(path, dir)} : dir \in removed}
     IN IF source \in cleaned
        THEN /\ fs' = cleaned \cup (IF args.buildbot THEN {emulator_filepath}
                                    ELSE {OBJS_DIR, OBJS_DIR \o <<"distribution", "emulator">>})
             /\ effects' = effects \o <<Did("remove_netsim", emulator_filepath), Did("copy", source)>>
             /\ spos' = "I_finish"
             /\ UNCHANGED exc
        ELSE /\ fs' = cleaned
             /\ effects' = Append(effects, Did("remove_netsim", emulator_filepath))
             /\ exc' = [kind |-> "FileNotFoundError", at |-> spos]
             /\ spos' = "raised"
  /\ UNCHANGED <<host, args, attempt, retval, tasks>>
  /\ UNCHANGED <<harnessVars, queueVars, scanVars, runVars>>

\* lines 247-252: EMULATOR_ARTIFACT_PATH is removed in the local case.
I_Finish ==
  /\ spos = "I_finish"
  /\ IF ~args.buildbot
     THEN /\ fs' = RmTree(fs, EMULATOR_ARTIFACT_PATH)
          /\ effects' = Append(effects, Did("rmtree", EMULATOR_ARTIFACT_PATH))
     ELSE UNCHANGED <<fs, effects>>
  /\ retval' = "True"
  /\ spos' = "returned"
  /\ UNCHANGED <<host, args, attempt, exc, tasks>>
  /\ UNCHANGED <<harnessVars, queueVars, scanVars, runVars>>

\* The hosts process may run on.
InstallHosts == [system : Systems \cup {"FreeBSD"}, machine : Machines \cup {"i386"}]

\* The file systems process may find: EMULATOR_ARTIFACT_PATH is there
\* (main creates it), with or without the artifact of the host.
InstallFiles(os) ==
  {{EMULATOR_ARTIFACT_PATH} \cup out \cup objs \cup zip \cup emu :
     out \in SUBSET {<<"out">>, <<"out", "distribution", "emulator">>},
     objs \in {{}} \cup {{OBJS_DIR} \cup bins : bins \in SUBSET {ObjsBin("netsim"), ObjsBin("netsimd")}},
     zip \in IF os = None THEN {{}} ELSE {{}, {Zip(os)}},
     emu \in {{}, {<<"emu">>}, {<<"emu">>, <<"emu", "netsim">>}}}

InitInstall ==
  /\ HarnessInit
  /\ RunIdle
  /\ QueueIdle
  /\ ScanIdle
  /\ host \in InstallHosts
  /\ args \in {[DefaultArgs EXCEPT !.buildbot = b, !.out_dir = o, !.local_emulator_dir = d] :
                 b \in BOOLEAN, o \in {"", "out"}, d \in {"", "emu"}}
  /\ fs \in InstallFiles(os_name_fetch)
  /\ spos = "I_os"
  /\ attempt = 1
  /\ effects = <<>>
  /\ retval = "none"
  /\ exc = "none"
  /\ tasks = <<>>

NextInstall ==
  \/ I_OsName
  \/ I_Prerequisites
  \/ I_Fetch
  \/ I_Unzip
  \/ I_Copy
  \/ I_Finish

SpecInstall == InitInstall /\ [][NextInstall]_vars

(* ------------------ scripts/utils.py: run, _log_proc, _reader --------- *)

\* Bound: the lines a child process writes.
MaxLines == 2

Pipes == {"stdout", "stderr"}

\* lines 201-202: the log function of each pipe's reader.
LogFn(pipe) == IF pipe = "stdout" THEN "logging.info" ELSE "logging.error"

Logged(logfn, line) == [op |-> logfn, line |-> line]

\* lines 160-167: subprocess.Popen starts the child with two pipes.
Run_Popen ==
  /\ spos = "run_popen"
  /\ proc' = [proc EXCEPT !.state = "running"]
  /\ spos' = "run_log_proc"
  /\ UNCHANGED <<pipes, readers>>
  /\ UNCHANGED <<host, args, fs, attempt, effects, retval, exc, tasks>>
  /\ UNCHANGED <<harnessVars, queueVars, scanVars>>

\* lines 199-208: _log_proc starts one _reader thread per pipe and returns.
Run_LogProc ==
  /\ spos = "run_log_proc"
  /\ readers' = [pipe \in Pipes |-> "reading"]
  /\ spos' = "run_wait"
  /\ UNCHANGED <<proc, pipes>>
  /\ UNCHANGED <<host, args, fs, attempt, effects, retval, exc, tasks>>
  /\ UNCHANGED <<harnessVars, queueVars, scanVars>>

\* The child writes its next line to one of its pipes.
Child_Write(pipe) ==
  /\ proc.state = "running"
  /\ proc.written < MaxLines
  /\ pipes' = [pipes EXCEPT ![pipe] = Append(@, proc.written + 1)]
  /\ proc' = [proc EXCEPT !.written = @ + 1]
  /\ UNCHANGED readers
  /\ UNCHANGED buildVars
  /\ UNCHANGED <<harnessVars, queueVars, scanVars>>

\* The child exits with some return code; its ends of the pipes are closed.
Child_Exit ==
  /\ proc.state = "running"
  /\ \E returncode \in {0, 1} :
       proc' = [proc EXCEPT !.state = "exited", !.returncode = returncode]
  /\ UNCHANGED <<pipes, readers>>
  /\ UNCHANGED buildVars
  /\ UNCHANGED <<harnessVars, queueVars, scanVars>>

\* lines 188-195: a reader thread takes the next line of its pipe and logs it.
Reader_Line(pipe) ==
  /\ readers[pipe] = "reading"
  /\ pipes[pipe] # <<>>
  /\ effects' = Append(effects, Logged(LogFn(pipe), Head(pipes[pipe])))
  /\ pipes' = [pipes EXCEPT ![pipe] = Tail(@)]
  /\ UNCHANGED <<proc, readers>>
  /\ UNCHANGED <<host, args, fs, spos, attempt, retval, exc, tasks>>
  /\ UNCHANGED <<harnessVars, queueVars, scanVars>>

\* lines 187-188: readline returns b"" at end of file and the thread ends.
Reader_EOF(pipe) ==
  /\ readers[pipe] = "reading"
  /\ pipes[pipe] = <<>>
  /\ proc.state = "exited"
  /\ readers' = [readers EXCEPT ![pipe] = "done"]
  /\ UNCHANGED <<proc, pipes>>
  /\ UNCHANGED buildVars
  /\ UNCHANGED <<harnessVars, queueVars, scanVars>>

\* lines 170-172: proc.wait() returns once the child has exited; run raises
\* on a non-zero return code if throw_on_failure, and returns None otherwise.
Run_Wait ==
  /\ spos = "run_wait"
  /\ proc.state = "exited"
  /\ IF proc.returncode # 0 /\ args.throw_on_failure
     THEN /\ exc' = [kind |-> "Exception", at |-> spos]
          /\ spos' = "raised"
          /\ UNCHANGED retval
     ELSE /\ retval' = "None"
          /\ spos' = "returned"
          /\ UNCHANGED exc
  /\ UNCHANGED runVars
  /\ UNCHANGED <<host, args, fs, attempt, effects, tasks>>
  /\ UNCHANGED <<harnessVars, queueVars, scanVars>>

\* run(cmd, env, log_prefix, throw_on_failure=...) is called.
InitRun ==
  /\ HarnessInit
  /\ QueueIdle
  /\ ScanIdle
  /\ RunIdle
  /\ host = [system |-> "Linux", machine |-> "x86_64"]
  /\ args \in [throw_on_failure : BOOLEAN]
  /\ fs = {}
  /\ spos = "run_popen"
  /\ attempt = 1
  /\ effects = <<>>
  /\ retval = "none"
  /\ exc = "none"
  /\ tasks = <<>>

NextRun ==
  \/ Run_Popen
  \/ Run_LogProc
  \/ \E pipe \in Pipes : Child_Write(pipe)
  \/ Child_Exit
  \/ \E pipe \in Pipes : Reader_Line(pipe)
  \/ \E pipe \in Pipes : Reader_EOF(pipe)
  \/ Run_Wait

SpecRun == InitRun /\ [][NextRun]_vars

(* C24: once process has found the emulator and runs the test command: on   *)
(* Darwin/arm64 the command is run at most 3 times, every run before the    *)
(* last one failed and was only logged, process returns True right after    *)
(* the first run that succeeds, and an exception leaves process only as the *)
(* failure of the 3rd run; on any other host the command is run exactly     *)
(* once and its failure leaves process at once, nothing logged.  Without    *)
(* the emulator the command is not run and process returns False.           *)
PytestRuns == SelectSeq(effects, LAMBDA e : e.op = "run")
PytestLogged == SelectSeq(effects, LAMBDA e : e.op = "log_error")
PytestEnded == spos \in {"returned", "raised"}
EmulatorFound == PytestDir \in fs /\ emulator_bin \in fs

C24_SessionRetry ==
  /\ \A i \in 1..Len(PytestRuns) : PytestRuns[i].cmd = PytestCmd
  /\ \A i \in 1..(Len(PytestRuns) - 1) : ~PytestRuns[i].ok
  /\ ~EmulatorFound => (PytestRuns = <<>> /\ (PytestEnded => retval = "False" /\ spos = "returned"))
  /\ (PytestEnded /\ EmulatorFound) =>
       /\ Len(PytestRuns) >= 1
       /\ spos = "returned" <=> PytestRuns[Len(PytestRuns)].ok
       /\ spos = "returned" => retval = "True"
       /\ spos = "raised" => exc = [kind |-> "Exception", attempt |-> Len(PytestRuns)]
  /\ IF host.system = "Darwin" /\ host.machine = "arm64"
     THEN /\ Len(PytestRuns) <= 3
          /\ spos = "raised" => Len(PytestRuns) = 3
          /\ Len(PytestLogged) = Len(SelectSeq(PytestRuns, LAMBDA e : ~e.ok))
                                   - (IF spos = "raised" THEN 1 ELSE 0)
     ELSE /\ Len(PytestRuns) <= 1
          /\ PytestLogged = <<>>

C24_Witness ==
  /\ host = [system |-> "Darwin", machine |-> "arm64"]
  /\ spos = "raised"
  /\ Len(PytestRuns) = 3
  /\ Len(PytestLogged) = 2

(* C25: Task.run executes do_run exactly once if the task is enabled and  *)
(* never if it is disabled; a task is disabled as constructed, until      *)
(* enable(True) is called on it, and run never changes the enabled flag.  *)
Enabled == {name \in DOMAIN tasks : tasks[name].enabled}

DoRuns(log, name) == Len(SelectSeq(log, LAMBDA e : e = DoRun(name)))

C25_RunHonoursEnabled ==
  [][ /\ (spos = "construct" /\ spos' # spos) =>
           \A name \in DOMAIN tasks' : ~tasks'[name].enabled /\ tasks'[name].do_runs = 0
      /\ (spos \in DOMAIN tasks /\ spos' # spos) =>
           /\ \A name \in DOMAIN tasks : tasks'[name].enabled = tasks[name].enabled
           /\ \A name \in DOMAIN tasks \ {spos} : tasks'[name] = tasks[name]
           /\ tasks'[spos].do_runs = tasks[spos].do_runs + (IF tasks[spos].enabled THEN 1 ELSE 0)
           /\ DoRuns(effects', spos) = DoRuns(effects, spos) + (IF tasks[spos].enabled THEN 1 ELSE 0)
           /\ effects'[Len(effects) + 1] = Called(spos) ]_vars

C25_Witness ==
  /\ spos = "CompileInstall"
  /\ tasks["Configure"].enabled /\ tasks["Configure"].do_runs = 1
  /\ ~tasks["Compile"].enabled /\ tasks["Compile"].do_runs = 0
  /\ effects = <<Called("Configure"), DoRun("Configure"), Called("Compile")>>

(* C26: get_tasks enables exactly Configure, CompileInstall, ZipArtifact, *)
(* InstallEmulator and RunPyTest when args.buildbot is set, whatever      *)
(* args.task holds; exactly Configure when neither buildbot nor task is   *)
(* given; and otherwise only tasks named in args.task, localrunall        *)
(* standing for Configure, Compile, InstallEmulator and RunPyTest.        *)
LowerName ==
  [name \in TaskNames |->
     CASE name = "Configure" -> "configure"
       [] name = "Compile" -> "compile"
       [] name = "CompileInstall" -> "compileinstall"
       [] name = "ZipArtifact" -> "zipartifact"
       [] name = "InstallEmulator" -> "installemulator"
       [] name = "RunPyTest" -> "runpytest"]

StandsFor(given) ==
  IF given = "localrunall" THEN {"Configure", "Compile", "InstallEmulator", "RunPyTest"}
  ELSE {name \in TaskNames : LowerName[name] = given}

TasksObtained == spos \notin {"construct", "get_tasks"}

ScansIssuedBefore(k) == Cardinality({j \in CmdIdx("bleStartScan") : j < k})

C27_LatestScanHandle ==
  /\ Running =>
       \A k \in 1..Len(queue["scan_callback"]) :
         queue["scan_callback"][k].callback_id = Cardinality(CmdIdx("bleStartScan"))
  /\ \A k \in ObsIdx("scan_callback", "onScanResult") :
       trace[k].id = ScansIssuedBefore(k)

C27_Witness ==
  /\ Cardinality(CmdIdx("bleStartScan")) = 2
  /\ \E k \in ObsIdx("scan_callback", "onScanResult") : trace[k].id = 2
  /\ \E k \in TraceIdx : trace[k] = Pass("Discover")

(* C28: StartScanning stops at the first attempt that drains at least one *)
(* onScanResult event: no bleStartScan is issued after it, and the list   *)
(* returned is the payloads of the events drained in that attempt, in     *)
(* arrival order, and is not empty on any normal return.                  *)
ScanResultsTaken == ObsIdx("scan_callback", "onScanResult")

C28_StopAtFirstSuccess ==
  /\ \A k \in ScanResultsTaken : \A j \in CmdIdx("bleStartScan") : j < k
  /\ pc = "Returned" =>
       /\ result # <<>>
       /\ result = [i \in 1..Cardinality(ScanResultsTaken) |-> trace[Nth(ScanResultsTaken, i)].d]
       /\ trace[Len(trace)] = Pass("StartScanning")

C28_Witness ==
  /\ pc = "Returned"
  /\ attempt_num = 1
  /\ Cardinality(CmdIdx("bleStartScan")) = 2
  /\ result = <<"r1", "r2">>

(* C29: main calls run on the tasks in the fixed order Configure,         *)
(* Compile, CompileInstall, RunTest, ZipArtifact, InstallEmulator,        *)
(* RunPyTest, whatever the order of the names in --task: only a failing   *)
(* task ends main before the last of them, and RunPyTest never runs       *)
(* before InstallEmulator has been run or skipped.                        *)
CalledNames ==
  LET calls == SelectSeq(effects, LAMBDA e : e.op = "Task.run") IN
  [i \in 1..Len(calls) |-> calls[i].name]

C29_FixedOrder ==
  /\ Len(CalledNames) <= Len(MainOrder)
  /\ \A i \in 1..Len(CalledNames) : CalledNames[i] = MainOrder[i]
  /\ spos = "raised" => exc.kind = "Exception"
  /\ spos = "returned" => CalledNames = MainOrder
  /\ \A i \in 1..Len(CalledNames) :
       CalledNames[i] = "RunPyTest" => \E j \in 1..(i - 1) : CalledNames[j] = "InstallEmulator"

(* C31: every task name main looks up and runs is a key of the mapping    *)
(* get_tasks returns, so that main never fails on a missing task and      *)
(* reaches the end of the pipeline unless a task itself raises.           *)
C31_EveryTaskRegistered ==
  /\ TasksObtained => \A i \in 1..Len(MainOrder) : MainOrder[i] \in DOMAIN tasks
  /\ spos = "raised" => exc.kind # "AttributeError"

(* C32: when a session ends in Closed, every scan and every advertising   *)
(* instance started during Discover has been stopped: the callback ids    *)
(* given to bleStopScan and bleStopAdvertising cover every handle that    *)
(* bleStartScan and bleStartAdvertising returned.                         *)
StoppedIds(n) == {trace[k].id : k \in CmdIdx(n)}

C32_EveryStartStopped ==
  pc = "Closed" =>
    /\ \A id \in 1..Cardinality(CmdIdx("bleStartScan")) : id \in StoppedIds("bleStopScan")
    /\ \A id \in 1..Cardinality(CmdIdx("bleStartAdvertising")) : id \in StoppedIds("bleStopAdvertising")

(* C33: without buildbot, the tasks get_tasks enables depend only on the  *)
(* names in args.task and not on their order: every permutation of the    *)
(* same names enables the same tasks.                                     *)
Occurrences(names, name) == Cardinality({i \in 1..Len(names) : names[i] = name})

PermutationsOf(names) ==
  {other \in SeqsUpTo(TASK_LIST, Len(names)) :
     /\ Len(other) = Len(names)
     /\ \A name \in TASK_LIST : Occurrences(other, name) = Occurrences(names, name)}

EnabledBy(a) == {name \in TaskNames : get_tasks(Constructed, a)[name].enabled}

C33_OrderIndependent ==
  (TasksObtained /\ ~args.buildbot) =>
    \A other \in PermutationsOf(args.task) :
      EnabledBy([args EXCEPT !.task = other]) = Enabled

(* C34: the initiator has at most one GATT read or write outstanding:     *)
(* each bleReadOperation / bleWriteOperation is issued only after the     *)
(* completion event of every earlier operation was taken from the queue   *)
(* and the checks on that operation passed, and an operation whose start  *)
(* call returns false fails the phase before any wait.                    *)
GattOps == CmdIdx("bleReadOperation") \cup CmdIdx("bleWriteOperation")

GattCompletions ==
  ObsIdx("client_callback", "onCharacteristicRead") \cup
  ObsIdx("client_callback", "onCharacteristicWrite")

\* The entries logged between the operation issued at k and the next one.
OwnEntries(k) == {j \in TraceIdx : j > k /\ \A m \in GattOps : m > k => j < m}

OperationVerified(k) ==
  IF trace[k].n = "bleReadOperation"
  THEN \E j \in OwnEntries(k) :
         /\ IsObs(j, "client_callback", "onCharacteristicRead")
         /\ trace[j].s = GATT_SUCCESS
         /\ \E i \in 1..Len(READ_UUIDS) : trace[k].d = READ_UUIDS[i] /\ trace[j].d = READ_DATAS[i]
  ELSE /\ \E j \in OwnEntries(k) : IsObs(j, "client_callback", "onCharacteristicWrite")
       /\ \E j \in OwnEntries(k) :
            /\ IsObs(j, "server_callback", "onCharacteristicWriteRequest")
            /\ \E i \in 1..Len(WRITE_UUIDS) : trace[k].d = WRITE_UUIDS[i] /\ trace[j].d = WRITE_DATAS[i]

C34_OneOutstanding ==
  /\ \A k \in GattOps :
       /\ Cardinality({j \in GattCompletions : j < k}) = Cardinality({m \in GattOps : m < k})
       /\ \A m \in GattOps : m < k => OperationVerified(m)
  /\ (err.kind = "AssertionError" /\ err.at \in {"R_read", "W_write"}) =>
       /\ Len(trace) - 1 \in GattOps
       /\ \A j \in GattCompletions : j < Len(trace) - 1

C34_Witness ==
  /\ Passed("WriteCharacteristic")
  /\ Cardinality(GattOps) = Len(READ_UUIDS) + Len(WRITE_UUIDS)
  /\ Cardinality(GattCompletions) = Cardinality(GattOps)

(* C35: run returns or raises only after every stdout and stderr line of  *)
(* the child has been logged, no reader thread being still at work on     *)
(* the output of that process; and run raises if and only if the return   *)
(* code is not zero and throw_on_failure is true.                         *)
RunEnded == spos \in {"returned", "raised"}

LinesLogged == {effects[k].line : k \in 1..Len(effects)}

C35_RunLogsAllOutput ==
  RunEnded =>
    /\ LinesLogged = 1..proc.written
    /\ \A pipe \in Pipes : pipes[pipe] = <<>> /\ readers[pipe] = "done"
    /\ spos = "raised" <=> (proc.returncode # 0 /\ args.throw_on_failure)

(* C36: a do_run that returns False does not halt the pipeline: Task.run  *)
(* only omits the 'completed' log and main goes on with the remaining     *)
(* tasks, so that main ends early only when a task raises an exception.   *)
C36_OnlyExceptionHalts ==
  /\ spos = "raised" => exc.kind = "Exception"
  /\ spos = "returned" => CalledNames = MainOrder

(* C37: the verdict of the Write phase does not depend on the content of  *)
(* the initiator's onCharacteristicWrite event: the wait for it passes    *)
(* whenever an event of that name is queued, whatever status or data it   *)
(* carries, and times out otherwise, so that runs differing in that       *)
(* content only end alike.                                                *)
C37_WriteVerdictBlind ==
  [][ (pc = "W_waitClient" /\ pc' # pc) =>
        IF Has(queue["client_callback"], "onCharacteristicWrite")
        THEN /\ pc' = IF idx < Len(WRITE_UUIDS) THEN "W_write" ELSE "X_disconnect"
             /\ err' = err
        ELSE /\ pc' = "Failed"
             /\ err'.kind = "TimeoutError" ]_vars

C37_Witness ==
  /\ Passed("WriteCharacteristic")
  /\ \E k \in ObsIdx("client_callback", "onCharacteristicWrite") : trace[k].s = GATT_FAILURE
  /\ \E k \in ObsIdx("client_callback", "onCharacteristicWrite") : trace[k].s = GATT_SUCCESS

(* C38: for every scan_duration >= 1, each attempt of StartScanning that  *)
(* is not cut short by onScanFailed drains onScanResult at least once and *)
(* sleeps at most SCAN_TIMEOUT seconds: it makes                          *)
(* floor(SCAN_TIMEOUT / scan_duration) drains, scan_duration apart.       *)
C38_PollsWithinTimeout ==
  /\ scan_duration >= 1
  /\ Polls * scan_duration <= SCAN_TIMEOUT
  /\ (Polls + 1) * scan_duration > SCAN_TIMEOUT
  /\ pc \in {"SS_poll", "SS_after"} => tick <= Polls /\ tick * scan_duration <= SCAN_TIMEOUT
  /\ pc = "SS_after" => tick >= 1
  /\ (pc = "SS_after" /\ ~success) => tick = Polls

(* C30: process returns False and fetches, unzips, copies and removes     *)
(* nothing when the host is unsupported or the prerequisite checks fail;  *)
(* it returns True only after the artifacts were copied; and without      *)
(* buildbot EMULATOR_ARTIFACT_PATH is removed only on that success path.  *)
DidOps(op) == {k \in 1..Len(effects) : effects[k].op = op}

InstallRefused == os_name_fetch = None \/ ~prerequisites

C30_InstallAllOrNothing ==
  /\ InstallRefused =>
       /\ effects = <<>>
       /\ EMULATOR_ARTIFACT_PATH \in fs
       /\ spos # "raised"
       /\ spos = "returned" => retval = "False"
  /\ retval = "True" => DidOps("copy") # {}
  /\ \A k \in DidOps("rmtree") :
       /\ ~args.buildbot
       /\ \E j \in DidOps("copy") : j < k
       /\ retval = "True"
  /\ EMULATOR_ARTIFACT_PATH \notin fs => (~args.buildbot /\ retval = "True")

C30_Witness ==
  /\ spos = "returned"
  /\ retval = "True"
  /\ ~args.buildbot
  /\ args.local_emulator_dir = ""
  /\ EMULATOR_ARTIFACT_PATH \notin fs
  /\ Len(effects) = 5
  /\ effects[1].op = "fetch" /\ effects[2].op = "unzip" /\ effects[5].op = "rmtree"

====
